---- MODULE Spec2Model ----
(***************************************************************************)
(* State-machine model of the 3D scene component (scene.js, kept here as   *)
(* src/unnamed/part_000): the object registry, the scene graph, the        *)
(* draggable set, the transform gizmos with their shared drag reference    *)
(* count, the free-drag controller, the orbit controls and the camera      *)
(* tween; and of the timed line highlight of the editor binding            *)
(* (src/nicegui/elements/codemirror/codemirror.js).                        *)
(*                                                                         *)
(* Every method of the component is a pure operator from a state record to *)
(* a state record (so that a method calling another method, as delete      *)
(* calls disable_transform_controls, is modelled whole), and every action  *)
(* applies one method or one listener and commits the record.              *)
(***************************************************************************)
EXTENDS Integers, Sequences, FiniteSets, TLC

VARIABLES
    is_initialized,     \* this.is_initialized
    objects,            \* this.objects: object_id -> node
    nodes,              \* the Object3Ds not yet garbage: node -> its fields
    draggable_objects,  \* this.draggable_objects: array of nodes
    transform_controls, \* this.transform_controls: object_id -> TransformControls
    helpers,            \* gizmo helpers that are children of this.scene
    dragging_count,     \* this.dragging_count
    controls,           \* this.controls (OrbitControls)
    camera,             \* this.camera: position and up
    look_at,            \* this.look_at
    camera_tween,       \* this.camera_tween
    call,               \* the latest move_camera call: its arguments, the
                        \* camera as it found it, the tween it has to start
    drag_selected,      \* DragControls' selected object, NoNode when idle
    editor,             \* the editor binding: the document, the decorations
                        \* property, the decorations the editor shows, the
                        \* timers not yet fired
    mount,              \* what mounted() left: the renderer, the connect
                        \* interval, window.socket.id, the init events sent;
                        \* and the drag_constraints property
    last                \* the handler that ran last: its name, its id argument,
                        \* the gizmo of that id as it found it, how it ended,
                        \* what it emitted, the tween it updated or completed,
                        \* its input (the planes of set_clipping_planes, the
                        \* ray and the intersections of a click, the pointer
                        \* position of a drag), the gizmo as it was at each
                        \* transform event, what each drag event carried

vars == <<is_initialized, objects, nodes, draggable_objects, transform_controls,
          helpers, dragging_count, controls, camera, look_at, camera_tween,
          call, drag_selected, editor, mount, last>>

----------------------------------------------------------------------------
(* Bounds of the model *)

\* number of nodes besides the root that are alive at one time
MaxNodes == 2
\* longest draggable_objects array
MaxDraggable == 2
MaxHits == 2
\* most points in a row of a grid of texture coordinates
MaxI == 3
\* most removal timers of the editor pending at one time
MaxTimers == 2

----------------------------------------------------------------------------
(* Values *)

\* the object ids the controller uses for its objects
Ids == {"a", "b"}
\* the id the registry is seeded with
SceneId == "scene"
\* the root node, this.scene
SceneNode == 0
\* Object3D.parent === null, and "no object" in general
NoNode == -1

Origin == <<0, 0, 0>>
Identity == <<<<1, 0, 0>>, <<0, 1, 0>>, <<0, 0, 1>>>>
\* a rotation by 90 degrees about z, given as the controller gives it (rows)
RotZ == <<<<0, -1, 0>>, <<1, 0, 0>>, <<0, 0, 1>>>>
\* the same about x and about y, and a turn about z followed by one about x
RotX == <<<<1, 0, 0>>, <<0, 0, -1>>, <<0, 1, 0>>>>
RotY == <<<<0, 0, 1>>, <<0, 1, 0>>, <<-1, 0, 0>>>>
RotXZ == <<<<0, -1, 0>>, <<0, 0, -1>>, <<1, 0, 0>>>>

\* null, or a value (a number, an array)
Null == <<>>
Num(v) == <<v>>

\* a material starts with clippingPlanes null and clipIntersection false
NoMaterial == [present |-> FALSE, color |-> "none", vertexColors |-> FALSE,
               opacity |-> 1, side |-> "none",
               clippingPlanes |-> Null, clipIntersection |-> FALSE,
               map |-> "none"]
\* new THREE.MeshPhongMaterial({ transparent: true })
PhongMaterial == [present |-> TRUE, color |-> "#ffffff", vertexColors |-> FALSE,
                  opacity |-> 1, side |-> "front",
                  clippingPlanes |-> Null, clipIntersection |-> FALSE,
                  map |-> "none"]

\* texture_material(texture): a MeshLambertMaterial showing the texture on
\* both sides
texture_material(texture) ==
    [present |-> TRUE, color |-> "#ffffff", vertexColors |-> FALSE,
     opacity |-> 1, side |-> "double",
     clippingPlanes |-> Null, clipIntersection |-> FALSE, map |-> texture]

\* a geometry: its triangle indices, its vertex positions (three numbers
\* each) and their uv coordinates; kind tells who built it
BufferGeometry(kind) == [kind |-> kind, index |-> <<>>, position |-> <<>>, uv |-> <<>>]

\* a request handed to a loader whose callback has not run yet
Pending(kind, url) == [kind |-> kind, url |-> url]

\* visible_axes argument: null / undefined, or an array of axis letters
NullAxes == [isnull |-> TRUE, axes |-> <<>>]
AxesOf(seq) == [isnull |-> FALSE, axes |-> seq]

Max(x, y) == IF x >= y THEN x ELSE y

\* coordinates of the camera are kept in quarters: the number 1 is Unit
Unit == 4

\* the identity of "no tween": this.camera_tween is undefined
NoTween == 0

\* camera_tween.update() runs at the half and at the end of the duration
TweenFrames == 2

Range(seq) == {seq[i] : i \in 1..Len(seq)}
\* the values of a Map
Values(f) == {f[k] : k \in DOMAIN f}

\* Map.set / Map.delete
MapSet(f, k, v) == [x \in (DOMAIN f) \cup {k} |-> IF x = k THEN v ELSE f[x]]
MapDelete(f, k) == [x \in (DOMAIN f) \ {k} |-> f[x]]

\* Array.prototype.indexOf: first index (1-based here), 0 for JavaScript's -1
IndexOf(seq, x) ==
    IF x \in Range(seq)
    THEN CHOOSE i \in 1..Len(seq) : seq[i] = x /\ \A j \in 1..(i - 1) : seq[j] # x
    ELSE 0

\* Array.prototype.splice(index, 1)
Splice(seq, i) == [j \in 1..(Len(seq) - 1) |-> IF j < i THEN seq[j] ELSE seq[j + 1]]

----------------------------------------------------------------------------
(* The scene graph (THREE.Object3D) *)

\* a freshly constructed mesh or group of create(); a gltf is a group that
\* the loader's callback fills, an stl a mesh whose geometry the callback
\* replaces, a texture a mesh whose material holds a texture that the
\* loader fills with the image. The children a loader adds are no objects of the registry and
\* are kept as a list of the node (loaded), not as nodes
NewNode(type, id) ==
    [object_id |-> id, parent |-> NoNode, name |-> "",
     position |-> Origin, scale |-> <<1, 1, 1>>, rotation |-> <<0, 0, 0>>,
     visible |-> TRUE,
     material |-> IF type \in {"group", "gltf"} THEN NoMaterial
                  ELSE IF type = "texture" THEN texture_material("empty")
                  ELSE PhongMaterial,
     geometry |-> IF type \in {"group", "gltf"} THEN BufferGeometry("none")
                  ELSE IF type = "stl" THEN BufferGeometry("empty")
                  ELSE BufferGeometry("built"),
     busy |-> FALSE,
     loaded |-> <<>>,
     loading |-> IF type \in {"gltf", "stl"} THEN {Pending(type, "url")}
                 ELSE IF type = "texture" THEN {Pending("image", "url")}
                 ELSE {}]

\* Object3D.add(child): adding an object to itself is refused (logged);
\* otherwise the child leaves its parent and gets the new one
Object3DAdd(ns, p, c) ==
    IF p = c THEN ns ELSE [ns EXCEPT ![c].parent = p]

\* Object3D.remove(child) on a list of children: the first entry is spliced out
Object3DRemove(children, c) ==
    IF IndexOf(children, c) # 0 THEN Splice(children, IndexOf(children, c))
    ELSE children

\* Object3D.removeFromParent()
RemoveFromParent(ns, c) == [ns EXCEPT ![c].parent = NoNode]

\* the nodes on the parent chain of n, n included
RECURSIVE AncestorsUpTo(_, _, _)
AncestorsUpTo(ns, n, fuel) ==
    IF n = NoNode \/ fuel = 0 THEN {}
    ELSE {n} \cup AncestorsUpTo(ns, ns[n].parent, fuel - 1)

Ancestors(ns, n) == AncestorsUpTo(ns, n, Cardinality(DOMAIN ns))

\* n is in the graph rendered from this.scene
UnderRoot(ns, n) == SceneNode \in Ancestors(ns, n)

----------------------------------------------------------------------------
(* The component's state as one record *)

State ==
    [is_initialized |-> is_initialized, objects |-> objects, nodes |-> nodes,
     draggable_objects |-> draggable_objects,
     transform_controls |-> transform_controls, helpers |-> helpers,
     dragging_count |-> dragging_count, controls |-> controls,
     camera |-> camera, look_at |-> look_at,
     camera_tween |-> camera_tween, drag_selected |-> drag_selected,
     editor |-> editor, mount |-> mount,
     thrown |-> FALSE, returned |-> "undefined", emitted |-> <<>>,
     updated |-> NoTween, completed |-> NoTween, input |-> <<>>,
     observed |-> <<>>]

\* the objects the component, its collaborators or the callback of a request
\* under way still hold a reference to
Referenced(s) ==
    {SceneNode} \cup {s.objects[k] : k \in DOMAIN s.objects}
        \cup Range(s.draggable_objects)
        \cup {s.transform_controls[k].object : k \in DOMAIN s.transform_controls}
        \cup ({s.drag_selected} \ {NoNode})
        \cup {n \in DOMAIN s.nodes : s.nodes[n].loading # {}}

\* parent and children references tie a whole tree together: a node is kept
\* while its tree holds a referenced object, and is garbage otherwise
Alive(s, n) ==
    \E r \in Referenced(s) : Ancestors(s.nodes, n) \cap Ancestors(s.nodes, r) # {}

Collect(s) ==
    [s EXCEPT !.nodes = [n \in {m \in DOMAIN s.nodes : Alive(s, m)} |-> s.nodes[n]]]

\* the identity of the next object built: the first one not in use
FreshNode(ns) == CHOOSE n \in 1..(Cardinality(DOMAIN ns) + 1) : n \notin DOMAIN ns

\* an uncaught TypeError ends the handler where it is
Throw(s) == [s EXCEPT !.thrown = TRUE]

\* this.$emit(type, {type, object_id, ...})
Emit(s, type, object_id) ==
    [s EXCEPT !.emitted = Append(@, [type |-> type, object_id |-> object_id])]

----------------------------------------------------------------------------
(* Registry and command interpreter *)

\* create that does not wait for init_objects
create_uninitialized(s, type, id, parent_id) ==
    LET mesh == FreshNode(s.nodes)
        built == s.nodes @@ (mesh :> NewNode(type, id))
        objs == MapSet(s.objects, id, mesh)
    IN  IF parent_id \in DOMAIN objs
        THEN [s EXCEPT !.objects = objs,
                       !.nodes = Object3DAdd(built, objs[parent_id], objs[id])]
        ELSE Throw([s EXCEPT !.objects = objs, !.nodes = built])

\* create(type, id, parent_id, ...args): the node is registered before the
\* parent is looked up, so an unknown parent throws with the node registered
create(s, type, id, parent_id) ==
    IF ~s.is_initialized THEN s
    ELSE LET mesh == FreshNode(s.nodes)
             built == s.nodes @@ (mesh :> NewNode(type, id))
             objs == MapSet(s.objects, id, mesh)
         IN  IF parent_id \in DOMAIN objs
             THEN [s EXCEPT !.objects = objs,
                            !.nodes = Object3DAdd(built, objs[parent_id], objs[id])]
             ELSE Throw([s EXCEPT !.objects = objs, !.nodes = built])

\* texture_geometry(coords): coords is a grid, a list of rows of points, a
\* point being null or [x, y, z]. The grid point i of row j (from 0) is
\* vertex i + j * nI; a missing point becomes the vertex (0, 0, 0)
Point(coords, j, i) ==
    IF j + 1 \in DOMAIN coords /\ i + 1 \in DOMAIN coords[j + 1]
    THEN coords[j + 1][i + 1] ELSE Null

\* the index loop from its quad q on, quads counted row by row
RECURSIVE Indices(_, _, _, _)
Indices(coords, nI, nJ, q) ==
    IF nI < 2 \/ q >= (nJ - 1) * (nI - 1) THEN <<>>
    ELSE LET j == q \div (nI - 1)
             i == q % (nI - 1)
             idx00 == i + j * nI
             idx10 == i + j * nI + 1
             idx01 == i + j * nI + nI
             idx11 == i + j * nI + 1 + nI
         IN  (IF /\ Point(coords, j, i) # Null
                 /\ Point(coords, j, i + 1) # Null
                 /\ Point(coords, j + 1, i) # Null
                 /\ Point(coords, j + 1, i + 1) # Null
              THEN <<idx10, idx00, idx01, idx11, idx10, idx01>>
              ELSE <<>>) \o Indices(coords, nI, nJ, q + 1)

\* the index loop without the test of the four corners
RECURSIVE IndicesOfAllQuads(_, _, _, _)
IndicesOfAllQuads(coords, nI, nJ, q) ==
    IF nI < 2 \/ q >= (nJ - 1) * (nI - 1) THEN <<>>
    ELSE LET j == q \div (nI - 1)
             i == q % (nI - 1)
             idx00 == i + j * nI
             idx10 == i + j * nI + 1
             idx01 == i + j * nI + nI
             idx11 == i + j * nI + 1 + nI
         IN  <<idx10, idx00, idx01, idx11, idx10, idx01>>
                 \o IndicesOfAllQuads(coords, nI, nJ, q + 1)

texture_geometry_of_all_quads(coords) ==
    LET nI == Len(coords[1])
        nJ == Len(coords)
    IN  [kind |-> "texture",
         index |-> IndicesOfAllQuads(coords, nI, nJ, 0),
         position |-> [k \in 1..(nI * nJ) |->
                          LET XYZ == Point(coords, (k - 1) \div nI, (k - 1) % nI)
                          IN  IF XYZ = Null THEN <<0, 0, 0>> ELSE XYZ],
         uv |-> [k \in 1..(nI * nJ) |->
                    << <<(k - 1) % nI, nI - 1>>, <<(k - 1) \div nI, nJ - 1>> >>]]

\* uv coordinates are kept as the quotients the code computes, <<i, nI - 1>>
\* for i / (nI - 1)
texture_geometry(coords) ==
    LET nI == Len(coords[1])
        nJ == Len(coords)
    IN  [kind |-> "texture",
         index |-> Indices(coords, nI, nJ, 0),
         position |-> [k \in 1..(nI * nJ) |->
                          LET XYZ == Point(coords, (k - 1) \div nI, (k - 1) % nI)
                          IN  IF XYZ = Null THEN <<0, 0, 0>> ELSE XYZ],
         uv |-> [k \in 1..(nI * nJ) |->
                    << <<(k - 1) % nI, nI - 1>>, <<(k - 1) \div nI, nJ - 1>> >>]]

\* create("texture", id, parent_id, url, coords): the mesh is built on
\* texture_geometry(coords) before it is registered
create_texture(s, id, parent_id, coords) ==
    LET s1 == create(s, "texture", id, parent_id)
    IN  IF ~s.is_initialized THEN s
        ELSE [s1 EXCEPT !.nodes[s1.objects[id]].geometry = texture_geometry(coords),
                        !.input = <<coords>>]

set_texture_coordinates(s, object_id, coords) ==
    IF object_id \notin DOMAIN s.objects THEN [s EXCEPT !.input = <<coords>>]
    ELSE [s EXCEPT !.nodes[s.objects[object_id]].geometry = texture_geometry(coords),
                   !.input = <<coords>>]

name(s, object_id, value) ==
    IF object_id \notin DOMAIN s.objects THEN s
    ELSE [s EXCEPT !.nodes[s.objects[object_id]].name = value]

material(s, object_id, color, opacity, side) ==
    IF object_id \notin DOMAIN s.objects THEN s
    ELSE LET n == s.objects[object_id]
         IN  IF ~s.nodes[n].material.present THEN s
             ELSE [s EXCEPT !.nodes[n].material =
                      [@ EXCEPT
                       !.color = IF color = "null" THEN "#ffffff" ELSE color,
                       !.vertexColors = (color = "null"),
                       !.opacity = opacity,
                       !.side = IF side \in {"front", "back"} THEN side ELSE "double"]]

\* move without the registry check: an unknown id makes the write throw
move_unguarded(s, object_id, p) ==
    IF object_id \notin DOMAIN s.objects THEN Throw(s)
    ELSE [s EXCEPT !.nodes[s.objects[object_id]].position = p]

move(s, object_id, p) ==
    IF object_id \notin DOMAIN s.objects THEN s
    ELSE [s EXCEPT !.nodes[s.objects[object_id]].position = p]

scale(s, object_id, v) ==
    IF object_id \notin DOMAIN s.objects THEN s
    ELSE [s EXCEPT !.nodes[s.objects[object_id]].scale = v]

\* Matrix4.makeBasis(x, y, z): the matrix whose columns are x, y, z (kept
\* here as a tuple of rows)
MakeBasis(x, y, z) == [i \in 1..3 |-> <<x[i], y[i], z[i]>>]

Transpose(M) == [i \in 1..3 |-> [j \in 1..3 |-> M[j][i]]]

Abs(x) == IF x < 0 THEN 0 - x ELSE x

\* angles are kept in quarter turns, which is what the matrices with
\* entries -1, 0, 1 need: sine, cosine, arc sine and atan2 of such values
Cos(q) == <<1, 0, -1, 0>>[(q % 4) + 1]
Sin(q) == <<0, 1, 0, -1>>[(q % 4) + 1]
Asin(v) == v
Atan2(y, x) == IF y = 0 THEN (IF x < 0 THEN 2 ELSE 0) ELSE IF y > 0 THEN 1 ELSE -1

\* Euler.setFromRotationMatrix(m) in the order XYZ
setFromRotationMatrix(M) ==
    IF Abs(M[1][3]) < 1
    THEN <<Atan2(-M[2][3], M[3][3]), Asin(M[1][3]), Atan2(-M[1][2], M[1][1])>>
    ELSE <<Atan2(M[3][2], M[2][2]), Asin(M[1][3]), 0>>

\* Matrix4.makeRotationFromEuler(euler) in the order XYZ: the orientation
\* the renderer gives an object with these angles
makeRotationFromEuler(euler) ==
    LET a == Cos(euler[1])
        b == Sin(euler[1])
        c == Cos(euler[2])
        d == Sin(euler[2])
        e == Cos(euler[3])
        f == Sin(euler[3])
    IN  << <<c * e, -(c * f), d>>,
           <<a * f + b * e * d, a * e - b * f * d, -(b * c)>>,
           <<b * f - a * e * d, b * e + a * f * d, a * c>> >>

\* rotate that applies the basis matrix as it is built
rotate_direct(s, object_id, R) ==
    IF object_id \notin DOMAIN s.objects THEN [s EXCEPT !.input = <<R>>]
    ELSE [s EXCEPT !.nodes[s.objects[object_id]].rotation =
                       setFromRotationMatrix(MakeBasis(R[1], R[2], R[3])),
                   !.input = <<R>>]

rotate(s, object_id, R) ==
    IF object_id \notin DOMAIN s.objects THEN [s EXCEPT !.input = <<R>>]
    ELSE [s EXCEPT !.nodes[s.objects[object_id]].rotation =
                       setFromRotationMatrix(Transpose(MakeBasis(R[1], R[2], R[3]))),
                   !.input = <<R>>]

visible(s, object_id, value) ==
    IF object_id \notin DOMAIN s.objects THEN s
    ELSE [s EXCEPT !.nodes[s.objects[object_id]].visible = value]

draggable(s, object_id, value) ==
    IF object_id \notin DOMAIN s.objects THEN s
    ELSE LET object == s.objects[object_id]
             index == IndexOf(s.draggable_objects, object)
         IN  IF value
             THEN [s EXCEPT !.draggable_objects = Append(@, object)]
             ELSE IF index # 0
                  THEN [s EXCEPT !.draggable_objects = Splice(@, index)]
                  ELSE s

----------------------------------------------------------------------------
(* Transform gizmos *)

\* the count after a release or a disposal: decremented, never below zero
Decremented(count) == Max(0, count - 1)

\* the listener with a flag in place of the count: any release enables orbit
dragging_changed_boolean(s, object_id, value) ==
    LET count == IF value THEN s.dragging_count + 1
                 ELSE Decremented(s.dragging_count)
    IN  [s EXCEPT !.transform_controls[object_id].isDragging = value,
                  !.dragging_count = count,
                  !.controls.enabled = ~value]

\* the "dragging-changed" listener of a gizmo
dragging_changed(s, object_id, value) ==
    LET count == IF value THEN s.dragging_count + 1
                 ELSE Decremented(s.dragging_count)
    IN  [s EXCEPT !.transform_controls[object_id].isDragging = value,
                  !.dragging_count = count,
                  !.controls.enabled =
                      IF value THEN (IF count = 1 THEN FALSE ELSE @)
                      ELSE (IF count = 0 THEN TRUE ELSE @)]

RECURSIVE change(_, _)
RECURSIVE dispatch(_, _, _)

\* dispatchEvent({type: "change"}): each registered "change" listener runs
dispatch(s, object_id, k) ==
    IF k = 0 THEN s ELSE dispatch(change(s, object_id), object_id, k - 1)

\* a write to a property of TransformControls: when the value differs, the
\* setter stores it and dispatches "<property>-changed", then "change"
SetProperty(s, object_id, property, value) ==
    LET tc == s.transform_controls[object_id]
        s1 == [s EXCEPT !.transform_controls[object_id][property] = value]
        s2 == IF property = "dragging"
              THEN dragging_changed(s1, object_id, value) ELSE s1
    IN  IF tc[property] = value THEN s
        ELSE dispatch(s2, object_id, tc.listeners)

\* the "change" listener that answers every notification, idle or not
change_unguarded(s, object_id) == Emit(s, "transform", object_id)

\* the "change" listener of a gizmo; the gizmo as it is when "transform" is
\* emitted is kept in observed
change(s, object_id) ==
    LET tc == s.transform_controls[object_id]
        s1 == IF tc.mode = "rotate" /\ tc.lockAxis # "none"
                   /\ tc.axis # tc.lockAxis
              THEN SetProperty(s, object_id, "axis", tc.lockAxis)
              ELSE s
    IN  IF ~tc.isDragging THEN s
        ELSE [Emit(s1, "transform", object_id)
                 EXCEPT !.observed = Append(@, s1.transform_controls[object_id])]

\* TransformControls.detach(): object and axis are cleared
TransformControlsDetach(s, object_id) ==
    SetProperty(SetProperty(s, object_id, "object", NoNode),
                object_id, "axis", "null")

\* disposal that forgets the drag in progress: the count is left as it is
disable_transform_controls_keeps_count(s, object_id) ==
    IF object_id \notin DOMAIN s.transform_controls THEN s
    ELSE [s EXCEPT !.helpers = Object3DRemove(@, object_id),
                   !.transform_controls = MapDelete(@, object_id),
                   !.controls.enabled = IF s.dragging_count = 0 THEN TRUE ELSE @]

\* disposal that decrements the count but never re-enables the orbit controls
disable_transform_controls_no_reenable(s, object_id) ==
    IF object_id \notin DOMAIN s.transform_controls THEN s
    ELSE LET tc == s.transform_controls[object_id]
             count == IF tc.dragging THEN Decremented(s.dragging_count)
                      ELSE s.dragging_count
         IN  [s EXCEPT !.dragging_count = count,
                       !.helpers = Object3DRemove(@, object_id),
                       !.transform_controls = MapDelete(@, object_id)]

\* disposal that decrements whatever the gizmo was doing, without the clamp
disable_transform_controls_always_decrements(s, object_id) ==
    IF object_id \notin DOMAIN s.transform_controls THEN s
    ELSE LET count == s.dragging_count - 1
         IN  [s EXCEPT !.dragging_count = count,
                       !.helpers = Object3DRemove(@, object_id),
                       !.transform_controls = MapDelete(@, object_id),
                       !.controls.enabled = IF count = 0 THEN TRUE ELSE @]

disable_transform_controls(s, object_id) ==
    IF object_id \notin DOMAIN s.transform_controls THEN s
    ELSE LET tc == s.transform_controls[object_id]
             count == IF tc.dragging THEN Decremented(s.dragging_count)
                      ELSE s.dragging_count
             s1 == TransformControlsDetach(s, object_id)
         IN  [s1 EXCEPT !.dragging_count = count,
                       !.helpers = Object3DRemove(@, object_id),
                       !.transform_controls = MapDelete(@, object_id),
                       !.controls.enabled = IF count = 0 THEN TRUE ELSE @]

\* delete that leaves the gizmo of the object in place
delete_keeps_gizmo(s, object_id) ==
    IF object_id \notin DOMAIN s.objects THEN s
    ELSE LET object == s.objects[object_id]
             index == IndexOf(s.draggable_objects, object)
         IN  [s EXCEPT !.nodes = RemoveFromParent(@, object),
                       !.objects = MapDelete(@, object_id),
                       !.draggable_objects =
                           IF index # 0 THEN Splice(@, index) ELSE @]

delete(s, object_id) ==
    IF object_id \notin DOMAIN s.objects THEN s
    ELSE LET s1 == disable_transform_controls(s, object_id)
             object == s1.objects[object_id]
             index == IndexOf(s1.draggable_objects, object)
         IN  [s1 EXCEPT !.nodes = RemoveFromParent(@, object),
                        !.objects = MapDelete(@, object_id),
                        !.draggable_objects =
                            IF index # 0 THEN Splice(@, index) ELSE @]

Includes(visible_axes, a) == a \in Range(visible_axes.axes)

\* mode === "rotate" && Array.isArray(visible_axes) && visible_axes.length === 1
SingleAxisRotate(mode, visible_axes) ==
    mode = "rotate" /\ ~visible_axes.isnull /\ Len(visible_axes.axes) = 1

\* new TransformControls(...), attached and configured, not yet in the map
NewTransformControls(object, mode, visible_axes) ==
    [object |-> object, mode |-> mode,
     showX |-> visible_axes.isnull \/ Includes(visible_axes, "X"),
     showY |-> visible_axes.isnull \/ Includes(visible_axes, "Y"),
     showZ |-> visible_axes.isnull \/ Includes(visible_axes, "Z"),
     lockAxis |-> IF SingleAxisRotate(mode, visible_axes)
                  THEN visible_axes.axes[1] ELSE "none",
     axis |-> "null", dragging |-> FALSE, isDragging |-> FALSE,
     listeners |-> 1]

\* the branch for an id that already has a gizmo: property writes, and the
\* axis lock kept in userData
Reconfigured(s, object_id, mode, visible_axes) ==
    LET shows(a) == visible_axes.isnull \/ Includes(visible_axes, a)
        s1 == SetProperty(s, object_id, "mode", mode)
        s2 == SetProperty(s1, object_id, "showX", shows("X"))
        s3 == SetProperty(s2, object_id, "showY", shows("Y"))
        s4 == SetProperty(s3, object_id, "showZ", shows("Z"))
    IN  IF SingleAxisRotate(mode, visible_axes)
        THEN SetProperty([s4 EXCEPT !.transform_controls[object_id].lockAxis =
                                        visible_axes.axes[1]],
                         object_id, "axis", visible_axes.axes[1])
        ELSE [s4 EXCEPT !.transform_controls[object_id].lockAxis = "none"]

\* enable_transform_controls that builds and registers on every call: the
\* helper is added and the listeners are registered once more
enable_transform_controls_again(s, object_id, mode, visible_axes) ==
    IF object_id \notin DOMAIN s.objects THEN [s EXCEPT !.returned = "false"]
    ELSE LET tc == NewTransformControls(s.objects[object_id], mode, visible_axes)
             n == IF object_id \in DOMAIN s.transform_controls
                  THEN s.transform_controls[object_id].listeners ELSE 0
         IN  [s EXCEPT !.transform_controls =
                           MapSet(@, object_id, [tc EXCEPT !.listeners = n + 1]),
                       !.helpers = Append(@, object_id),
                       !.returned = "true"]

enable_transform_controls(s, object_id, mode, visible_axes) ==
    IF object_id \notin DOMAIN s.objects THEN [s EXCEPT !.returned = "false"]
    ELSE IF object_id \in DOMAIN s.transform_controls
    THEN [Reconfigured(s, object_id, mode, visible_axes)
              EXCEPT !.returned = "true"]
    ELSE [s EXCEPT !.transform_controls =
                       MapSet(@, object_id,
                              NewTransformControls(s.objects[object_id], mode,
                                                   visible_axes)),
                   !.helpers = Append(@, object_id),
                   !.returned = "true"]

\* TransformControls.setMode
set_transform_mode(s, object_id, mode) ==
    IF object_id \notin DOMAIN s.transform_controls THEN s
    ELSE SetProperty(s, object_id, "mode", mode)

\* has_transform_controls that answers from the registry
has_transform_controls_registered(s, object_id) == object_id \in DOMAIN s.objects

has_transform_controls(s, object_id) == object_id \in DOMAIN s.transform_controls

\* the "mouseDown" listener of a gizmo
mouseDown(s, object_id) ==
    LET tc == s.transform_controls[object_id]
        s1 == IF tc.lockAxis # "none"
              THEN SetProperty(s, object_id, "axis", tc.lockAxis)
              ELSE s
    IN  Emit(s1, "transform_start", object_id)

\* the "mouseUp" listener of a gizmo
mouseUp(s, object_id) == Emit(s, "transform_end", object_id)

----------------------------------------------------------------------------
(* Orbit controls, re-parenting, camera tween, bulk initialisation *)

\* set_texture_url(object_id, url): one request per object at a time
set_texture_url(s, object_id, url) ==
    IF object_id \notin DOMAIN s.objects THEN s
    ELSE LET obj == s.objects[object_id]
         IN  IF s.nodes[obj].busy THEN s
             ELSE [s EXCEPT !.nodes[obj].busy = TRUE,
                            !.nodes[obj].loading = @ \cup {Pending("texture", url)}]

\* a loader callback that looks the object up by its id when it runs
onLoad_by_id(s, mesh, load) ==
    LET object_id == s.nodes[mesh].object_id
        done == [s EXCEPT !.nodes[mesh].loading = @ \ {load}]
        obj == done.objects[object_id]
    IN  IF object_id \notin DOMAIN done.objects THEN done
        ELSE IF load.kind = "gltf"
        THEN [done EXCEPT !.nodes[obj].loaded = Append(@, "gltf.scene")]
        ELSE IF load.kind = "stl"
        THEN [done EXCEPT !.nodes[obj].geometry = BufferGeometry("loaded")]
        ELSE IF load.kind = "image"
        THEN [done EXCEPT !.nodes[obj].material.map = load.url]
        ELSE [done EXCEPT !.nodes[obj].material = texture_material(load.url),
                          !.nodes[obj].busy = FALSE]

\* what the loaders do when a request resolves. The callbacks hold the
\* object the request was made for: mesh.add(gltf.scene) for a gltf,
\* mesh.geometry = geometry for an stl, on_success for set_texture_url. The
\* texture of create() has no callback: the loader fills the texture it
\* returned, which the material shows while it still holds that texture
onLoad(s, mesh, load) ==
    LET done == [s EXCEPT !.nodes[mesh].loading = @ \ {load}]
    IN  IF load.kind = "gltf"
        THEN [done EXCEPT !.nodes[mesh].loaded = Append(@, "gltf.scene")]
        ELSE IF load.kind = "stl"
        THEN [done EXCEPT !.nodes[mesh].geometry = BufferGeometry("loaded")]
        ELSE IF load.kind = "image"
        THEN [done EXCEPT !.nodes[mesh].material.map =
                              IF @ = "empty" THEN load.url ELSE @]
        ELSE [done EXCEPT !.nodes[mesh].material = texture_material(load.url),
                          !.nodes[mesh].busy = FALSE]

\* the callbacks of a request that fails: console.error for a gltf, nothing
\* for an stl, on_error for a texture
onError(s, mesh, load) ==
    LET done == [s EXCEPT !.nodes[mesh].loading = @ \ {load}]
    IN  IF load.kind = "texture" THEN [done EXCEPT !.nodes[mesh].busy = FALSE]
        ELSE done

set_orbit_enabled(s, flag) == [s EXCEPT !.controls.enabled = flag]

\* attach: an unknown parent_id makes parent.add throw before any change
attach(s, object_id, parent_id, p, R) ==
    IF object_id \notin DOMAIN s.objects THEN s
    ELSE IF parent_id \notin DOMAIN s.objects THEN Throw(s)
    ELSE LET object == s.objects[object_id]
             parent == s.objects[parent_id]
             s1 == [s EXCEPT !.nodes = Object3DAdd(@, parent, object)]
         IN  rotate(move(s1, object_id, p), object_id, R)

detach(s, object_id, p, R) ==
    IF object_id \notin DOMAIN s.objects THEN s
    ELSE LET object == s.objects[object_id]
             s1 == [s EXCEPT !.nodes =
                       Object3DAdd(RemoveFromParent(@, object), SceneNode, object)]
         IN  rotate(move(s1, object_id, p), object_id, R)

\* new OrbitControls(camera, domElement): enabled by default, target at the
\* origin; instance tells one OrbitControls object from another
NewOrbitControls(instance) ==
    [enabled |-> TRUE, target |-> Origin, instance |-> instance]

\* the identity of the next object built while old is still referenced
Fresh(old) == IF old = 1 THEN 2 ELSE 1

\* an argument of move_camera left null resolves to the current value
Resolve(arg, current) == IF arg = Null THEN current ELSE arg[1]

\* the array of nine numbers a tween starts from
Sample(s) == s.camera.position \o s.camera.up \o s.look_at

\* the array handed to Tween.to()
Target(s, args) ==
    <<Resolve(args.x, s.camera.position[1]),
      Resolve(args.y, s.camera.position[2]),
      Resolve(args.z, s.camera.position[3]),
      Resolve(args.up_x, s.camera.up[1]),
      Resolve(args.up_y, s.camera.up[2]),
      Resolve(args.up_z, s.camera.up[3]),
      Resolve(args.look_at_x, s.look_at[1]),
      Resolve(args.look_at_y, s.look_at[2]),
      Resolve(args.look_at_z, s.look_at[3])>>

\* move_camera whose unchanged arguments fall back to 0
move_camera_defaults(s, args) ==
    [s EXCEPT !.camera_tween =
        [id |-> Fresh(s.camera_tween.id), playing |-> TRUE, elapsed |-> 0,
         from |-> Sample(s),
         to |-> <<Resolve(args.x, 0), Resolve(args.y, 0), Resolve(args.z, 0),
                  Resolve(args.up_x, 0), Resolve(args.up_y, 0),
                  Resolve(args.up_z, 0), Resolve(args.look_at_x, 0),
                  Resolve(args.look_at_y, 0), Resolve(args.look_at_z, 0)>>,
         camera_up_changed |->
             (args.up_x # Null \/ args.up_y # Null \/ args.up_z # Null)]]

\* move_camera that lets a tween in flight run on and drops the new request
move_camera_keeps_tween(s, args) ==
    IF s.camera_tween.playing THEN s
    ELSE [s EXCEPT !.camera_tween =
             [id |-> Fresh(s.camera_tween.id), playing |-> TRUE, elapsed |-> 0,
              from |-> Sample(s), to |-> Target(s, args),
              camera_up_changed |->
                  (args.up_x # Null \/ args.up_y # Null \/ args.up_z # Null)]]

\* move_camera: the tween in flight is stopped, a new one is started from
\* the current camera and replaces it
move_camera(s, args) ==
    [s EXCEPT !.camera_tween =
        [id |-> Fresh(s.camera_tween.id), playing |-> TRUE, elapsed |-> 0,
         from |-> Sample(s), to |-> Target(s, args),
         camera_up_changed |->
             (args.up_x # Null \/ args.up_y # Null \/ args.up_z # Null)]]

\* linear interpolation after k of TweenFrames frames
Interpolate(tween, k) ==
    [i \in 1..9 |->
        tween.from[i] + ((tween.to[i] - tween.from[i]) * k) \div TweenFrames]

\* the onUpdate callback of the camera tween
onUpdate(s, q) ==
    [s EXCEPT !.camera = [position |-> SubSeq(q, 1, 3), up |-> SubSeq(q, 4, 6)],
              !.look_at = SubSeq(q, 7, 9),
              !.controls.target = SubSeq(q, 7, 9),
              !.updated = s.camera_tween.id]

\* the onComplete callback of the camera tween
onComplete(s) ==
    [s EXCEPT !.completed = s.camera_tween.id,
              !.controls =
                  IF s.camera_tween.camera_up_changed
                  THEN [NewOrbitControls(Fresh(s.controls.instance))
                            EXCEPT !.target = s.look_at]
                  ELSE @]

\* Tween.update() when k frames of the duration have passed: a tween that
\* is not playing does nothing
update(s, k) ==
    IF ~s.camera_tween.playing THEN s
    ELSE LET s1 == onUpdate([s EXCEPT !.camera_tween.elapsed = k],
                            Interpolate(s.camera_tween, k))
         IN  IF k = TweenFrames
             THEN onComplete([s1 EXCEPT !.camera_tween.playing = FALSE])
             ELSE s1

\* one row of init_objects: the eight calls of the loop body, ended by a throw
init_row(s, row) ==
    LET s1 == create(s, row.type, row.id, row.parent_id)
    IN  IF s1.thrown THEN s1
        ELSE draggable(
               visible(
                 scale(
                   rotate(
                     move(
                       material(name(s1, row.id, row.name),
                                row.id, row.color, row.opacity, row.side),
                       row.id, row.position),
                     row.id, row.R),
                   row.id, row.scale),
                 row.id, row.visible),
               row.id, row.draggable)

RECURSIVE init_rows(_, _)
init_rows(s, data) ==
    IF data = <<>> \/ s.thrown THEN s
    ELSE init_rows(init_row(s, Head(data)), Tail(data))

init_objects(s, data) == init_rows([s EXCEPT !.is_initialized = TRUE], data)

----------------------------------------------------------------------------
(* Pointer-driven listeners *)

\* the text of drag_constraints as its tokens: numbers, the letters x, y,
\* z, and the signs = , + - *
Number(n) == [t |-> "number", n |-> n, s |-> ""]
Letter(s) == [t |-> "letter", n |-> 0, s |-> s]
Sign(s) == [t |-> "sign", n |-> 0, s |-> s]

\* String.prototype.split(separator): the pieces between the separators,
\* one piece (the empty one) for the empty text
RECURSIVE Split(_, _)
Split(text, separator) ==
    IF \A i \in 1..Len(text) : text[i] # Sign(separator) THEN <<text>>
    ELSE LET i == CHOOSE k \in 1..Len(text) :
                      /\ text[k] = Sign(separator)
                      /\ \A h \in 1..(k - 1) : text[h] # Sign(separator)
         IN  <<SubSeq(text, 1, i - 1)>> \o Split(SubSeq(text, i + 1, Len(text)), separator)

\* expression.replace(/x|y|z/g, (match) => `(${position[match]})`)
Replace(expression, position) ==
    [i \in 1..Len(expression) |->
        IF expression[i].t = "letter"
        THEN Number(position[IndexOf(<<"x", "y", "z">>, expression[i].s)])
        ELSE expression[i]]

\* eval of numbers joined by + - *: products first, then the sum from the
\* left; sum holds the terms closed so far, product the term being read
RECURSIVE Eval(_, _, _, _)
Eval(expression, i, sum, product) ==
    IF i > Len(expression) THEN sum + product
    ELSE IF expression[i].s = "*"
    THEN Eval(expression, i + 2, sum, product * expression[i + 1].n)
    ELSE IF expression[i].s = "+"
    THEN Eval(expression, i + 2, sum + product, expression[i + 1].n)
    ELSE Eval(expression, i + 2, sum + product, -expression[i + 1].n)

\* applyConstraint(constraint, position): nothing for the empty text;
\* otherwise the text before the first = names the coordinate that gets
\* the value of the expression after it
applyConstraint(constraint, position) ==
    IF constraint = <<>> THEN position
    ELSE LET parts == Split(constraint, "=")
             variable == parts[1][1].s
             expression == Replace(parts[2], position)
         IN  [position EXCEPT ![IndexOf(<<"x", "y", "z">>, variable)] =
                 Eval(expression, 2, 0, expression[1].n)]

\* forEach over the constraints from the k-th on, each on the position the
\* one before left
RECURSIVE forEach(_, _, _)
forEach(constraints, k, position) ==
    IF k > Len(constraints) THEN position
    ELSE forEach(constraints, k + 1, applyConstraint(constraints[k], position))

\* the same with every constraint reading the position the drag gave
RECURSIVE forEachOnOriginal(_, _, _, _)
forEachOnOriginal(constraints, k, position, original) ==
    IF k > Len(constraints) THEN position
    ELSE LET value == applyConstraint(constraints[k], original)
             axis == IF constraints[k] = <<>> THEN 1
                     ELSE IndexOf(<<"x", "y", "z">>, constraints[k][1].s)
         IN  forEachOnOriginal(constraints, k + 1,
                               IF constraints[k] = <<>> THEN position
                               ELSE [position EXCEPT ![axis] = value[axis]],
                               original)

handleDrag_on_original(s, type, object) ==
    LET constraints == Split(s.mount.drag_constraints, ",")
        position == forEachOnOriginal(constraints, 1, s.nodes[object].position,
                                      s.nodes[object].position)
        s1 == [s EXCEPT !.nodes[object].position = position]
    IN  [Emit(s1, type, s1.nodes[object].object_id)
            EXCEPT !.observed = Append(@, [object_id |-> s1.nodes[object].object_id,
                                           object_name |-> s1.nodes[object].name,
                                           x |-> position[1], y |-> position[2],
                                           z |-> position[3]]),
                   !.input = <<s.nodes[object].position>>,
                   !.controls.enabled = IF type = "dragstart" THEN FALSE
                                        ELSE IF type = "dragend" THEN TRUE ELSE @]

\* the handleDrag listener of the free-drag controls: the constraints are
\* applied to the position of the dragged object, then the event is
\* emitted with the id, the name and the position (kept in observed)
handleDrag(s, type, object) ==
    LET constraints == Split(s.mount.drag_constraints, ",")
        position == forEach(constraints, 1, s.nodes[object].position)
        s1 == [s EXCEPT !.nodes[object].position = position]
    IN  [Emit(s1, type, s1.nodes[object].object_id)
            EXCEPT !.observed = Append(@, [object_id |-> s1.nodes[object].object_id,
                                           object_name |-> s1.nodes[object].name,
                                           x |-> position[1], y |-> position[2],
                                           z |-> position[3]]),
                   !.input = <<s.nodes[object].position>>,
                   !.controls.enabled = IF type = "dragstart" THEN FALSE
                                        ELSE IF type = "dragend" THEN TRUE ELSE @]


\* TransformControls.pointerHover then pointerDown on a handle: the hovered
\* axis is taken, dragging becomes true, then "mouseDown" is dispatched
pointerDown(s, object_id, axis) ==
    LET s1 == SetProperty(s, object_id, "axis", axis)
        s2 == SetProperty(s1, object_id, "dragging", TRUE)
    IN  mouseDown(s2, object_id)

\* TransformControls.pointerUp: "mouseUp" is dispatched for a drag in
\* progress, then dragging and axis are cleared
pointerUp(s, object_id) ==
    LET tc == s.transform_controls[object_id]
        s1 == IF tc.dragging /\ tc.axis # "null" THEN mouseUp(s, object_id) ELSE s
        s2 == SetProperty(s1, object_id, "dragging", FALSE)
    IN  SetProperty(s2, object_id, "axis", "null")

----------------------------------------------------------------------------
(* Clipping planes *)


\* Vector3.length(), for the vectors along one axis that the model uses
Length(v) == Abs(v[1]) + Abs(v[2]) + Abs(v[3])

\* Vector3.normalize(): divideScalar(length() || 1)
Normalize(v) ==
    LET len == IF Length(v) = 0 THEN 1 ELSE Length(v)
    IN  [i \in 1..3 |-> v[i] \div len]

\* planes.map(p => new THREE.Plane(new Vector3(p.nx, p.ny, p.nz).normalize(), p.d))
ClipPlanes(planes) ==
    [i \in 1..Len(planes) |->
        [normal |-> Normalize(<<planes[i].nx, planes[i].ny, planes[i].nz>>),
         constant |-> planes[i].d]]

\* the objects Object3D.traverse visits from n: n and its descendants
Traversed(ns, n) == {k \in DOMAIN ns : n \in Ancestors(ns, k)}

\* set_clipping_planes that writes the material of the object itself only
set_clipping_planes_object_only(s, object_id, planes) ==
    IF object_id \notin DOMAIN s.objects THEN s
    ELSE LET n == s.objects[object_id]
         IN  [s EXCEPT !.input = <<planes>>,
                       !.nodes[n].material =
                           IF @.present
                           THEN [@ EXCEPT !.clippingPlanes = Num(ClipPlanes(planes)),
                                          !.clipIntersection = FALSE]
                           ELSE @]

set_clipping_planes(s, object_id, planes) ==
    IF object_id \notin DOMAIN s.objects THEN s
    ELSE LET visited == Traversed(s.nodes, s.objects[object_id])
         IN  [s EXCEPT !.input = <<planes>>,
                       !.nodes =
                           [n \in DOMAIN @ |->
                               IF n \in visited /\ @[n].material.present
                               THEN [@[n] EXCEPT
                                       !.material.clippingPlanes =
                                           Num(ClipPlanes(planes)),
                                       !.material.clipIntersection = FALSE]
                               ELSE @[n]]]

\* clear_clipping_planes that writes the material of the object itself only
clear_clipping_planes_object_only(s, object_id) ==
    IF object_id \notin DOMAIN s.objects THEN s
    ELSE [s EXCEPT !.nodes[s.objects[object_id]].material.clippingPlanes = Null]

clear_clipping_planes(s, object_id) ==
    IF object_id \notin DOMAIN s.objects THEN s
    ELSE LET visited == Traversed(s.nodes, s.objects[object_id])
         IN  [s EXCEPT !.nodes =
                           [n \in DOMAIN @ |->
                               IF n \in visited /\ @[n].material.present
                               THEN [@[n] EXCEPT !.material.clippingPlanes = Null]
                               ELSE @[n]]]

----------------------------------------------------------------------------
(* Hit testing *)

\* const groundPlane = new THREE.Plane(new THREE.Vector3(0, 0, 1), 0)
groundPlane == [normal |-> <<0, 0, 1>>, constant |-> 0]

Dot(u, v) == u[1] * v[1] + u[2] * v[2] + u[3] * v[3]

\* Ray.at(t)
At(ray, t) == [i \in 1..3 |-> ray.origin[i] + t * ray.direction[i]]

\* Ray.distanceToPlane: null for a ray parallel to the plane and off it, and
\* for a plane behind the ray (the directions used have a z of -1, 0 or 1,
\* so the quotient is exact)
DistanceToPlane(ray, plane) ==
    LET denominator == Dot(plane.normal, ray.direction)
        distance == Dot(plane.normal, ray.origin) + plane.constant
        t == (0 - distance) * denominator
    IN  IF denominator = 0
        THEN (IF distance = 0 THEN Num(0) ELSE Null)
        ELSE (IF t >= 0 THEN Num(t) ELSE Null)

\* Ray.intersectPlane
IntersectPlane(ray, plane) ==
    LET t == DistanceToPlane(ray, plane)
    IN  IF t = Null THEN Null ELSE Num(At(ray, t[1]))

\* the object_id written on the parts of the helper of a gizmo
HelperTag(object_id) ==
    IF object_id = "a" THEN "transformcontrols:a" ELSE "transformcontrols:b"

\* the objects under this.scene a pick ray can meet: the ground mesh and the
\* grid of mounted(), the meshes of create, the parts of the gizmo helpers
Pickable(s) ==
    {[object_id |-> "ground", name |-> ""], [object_id |-> "undefined", name |-> ""]}
    \cup {[object_id |-> s.nodes[n].object_id, name |-> s.nodes[n].name] :
            n \in {k \in DOMAIN s.nodes \ {SceneNode} :
                      UnderRoot(s.nodes, k) /\ s.nodes[k].material.present}}
    \cup {[object_id |-> HelperTag(id), name |-> "X"] : id \in Range(s.helpers)}

\* (o) => o.object.object_id as a filter: undefined and "" are falsy
Truthy(object_id) == object_id \notin {"undefined", ""}

\* the hits of click_handler: the intersections that carry an object_id
Hits(intersections) ==
    SelectSeq(intersections, LAMBDA o : Truthy(o.object_id))

\* click_handler that reports the ground point only next to a hit
click_handler_needs_hit(s, ray, intersections) ==
    [s EXCEPT !.input = <<ray, intersections>>, !.emitted =
        Append(@, [type |-> "click3d", hits |-> Hits(intersections),
                   ground_point |->
                       IF Hits(intersections) = <<>> THEN Null
                       ELSE IntersectPlane(ray, groundPlane)])]

\* click_handler that reports every intersection
click_handler_unfiltered(s, ray, intersections) ==
    [s EXCEPT !.input = <<ray, intersections>>, !.emitted =
        Append(@, [type |-> "click3d", hits |-> intersections,
                   ground_point |-> IntersectPlane(ray, groundPlane)])]

\* click_handler: ray is the pick ray of raycaster.setFromCamera, and
\* intersections what intersectObjects finds on it, nearest first
click_handler(s, ray, intersections) ==
    [s EXCEPT !.input = <<ray, intersections>>, !.emitted =
        Append(@, [type |-> "click3d", hits |-> Hits(intersections),
                   ground_point |-> IntersectPlane(ray, groundPlane)])]

----------------------------------------------------------------------------
(* Initial state: the component after mounted() *)

\* this.scene: a THREE.Scene, which carries no object_id
SceneRoot == [NewNode("group", "undefined") EXCEPT !.name = ""]

\* the camera of mounted(): at (0, -3, 5), z up
Camera0 == [position |-> <<0, -3 * Unit, 5 * Unit>>, up |-> <<0, 0, Unit>>]

\* arguments of move_camera
NoArgs ==
    [x |-> Null, y |-> Null, z |-> Null,
     look_at_x |-> Null, look_at_y |-> Null, look_at_z |-> Null,
     up_x |-> Null, up_y |-> Null, up_z |-> Null]

\* move_camera(x, null, ...), move_camera(..., up_x, up_y, up_z, duration)
\* and move_camera(..., look_at_x, look_at_y, look_at_z, ...)
OnlyX(v) == [NoArgs EXCEPT !.x = Num(v)]
Up(vx, vy, vz) == [NoArgs EXCEPT !.up_x = Num(vx), !.up_y = Num(vy), !.up_z = Num(vz)]
LookAt(vx, vy, vz) ==
    [NoArgs EXCEPT !.look_at_x = Num(vx), !.look_at_y = Num(vy), !.look_at_z = Num(vz)]

\* mounted(): when the WebGL renderer cannot be constructed the element
\* shows a message and mounted returns before the connect interval is set;
\* otherwise the interval polls window.socket.id. The drag_constraints
\* property is the empty text unless the page sets it
mounted(webgl) ==
    IF ~webgl
    THEN [renderer |-> "undefined", innerHTML |-> "Could not create WebGL renderer.",
          connectInterval |-> FALSE, socket_id |-> Null, thrown |-> FALSE,
          inits |-> 0, drag_constraints |-> <<>>]
    ELSE [renderer |-> "WebGLRenderer", innerHTML |-> "canvas",
          connectInterval |-> TRUE, socket_id |-> Null, thrown |-> FALSE,
          inits |-> 0, drag_constraints |-> <<>>]

\* the callback of connectInterval: it waits for the socket to have an id,
\* emits init and clears the interval
connectInterval_keeps_running(s) ==
    IF s.mount.socket_id = Null THEN s
    ELSE [Emit(s, "init", "none") EXCEPT !.mount.inits = @ + 1]

connectInterval(s) ==
    IF s.mount.socket_id = Null THEN s
    ELSE [Emit(s, "init", "none") EXCEPT !.mount.inits = @ + 1,
                                         !.mount.connectInterval = FALSE]

----------------------------------------------------------------------------
(* The editor binding: decorations and the timed line highlight *)

Min(x, y) == IF x <= y THEN x ELSE y

\* Math.min(...lineIndices)
RECURSIVE MathMin(_)
MathMin(seq) ==
    IF Len(seq) = 1 THEN seq[1] ELSE Min(seq[1], MathMin(Tail(seq)))

\* doc.line(n).from: where line n starts in a document given by the lengths
\* of its lines, each line ended by a line break
RECURSIVE LineFrom(_, _)
LineFrom(doc, n) ==
    IF n = 1 THEN 0 ELSE LineFrom(doc, n - 1) + doc[n - 1] + 1

\* {...decorationSets} with decorationSets[key] = specs: the sets of an
\* object in the order of their keys, a new key last
ObjectSet(decorationSets, key, specs) ==
    IF \E k \in 1..Len(decorationSets) : decorationSets[k].key = key
    THEN [k \in 1..Len(decorationSets) |->
             IF decorationSets[k].key = key
             THEN [key |-> key, specs |-> specs] ELSE decorationSets[k]]
    ELSE Append(decorationSets, [key |-> key, specs |-> specs])

\* delete decorationSets[key]
ObjectDelete(decorationSets, key) ==
    LET Other(set) == set.key # key IN SelectSeq(decorationSets, Other)

\* createDecoration(spec): a line decoration sits where its line, clamped
\* to the document, starts; a spec of no known kind gives null, here the
\* empty list (mark decorations are not part of a highlight and are left out)
createDecoration(doc, spec) ==
    IF spec.kind = "line"
    THEN <<[from |-> LineFrom(doc, Max(1, Min(spec.line, Len(doc)))),
            class |-> spec.class]>>
    ELSE <<>>

\* the loops of setDecorations over Object.values(decorationSets) and over
\* the specs of each set
RECURSIVE DecorationsOf(_, _)
DecorationsOf(doc, specs) ==
    IF specs = <<>> THEN <<>>
    ELSE createDecoration(doc, Head(specs)) \o DecorationsOf(doc, Tail(specs))

RECURSIVE AllDecorations(_, _)
AllDecorations(doc, decorationSets) ==
    IF decorationSets = <<>> THEN <<>>
    ELSE DecorationsOf(doc, Head(decorationSets).specs)
             \o AllDecorations(doc, Tail(decorationSets))

\* allDecorations.sort((a, b) => a.from - b.from): a stable sort
RECURSIVE SortByFrom(_)
SortByFrom(seq) ==
    IF seq = <<>> THEN <<>>
    ELSE LET sorted == SortByFrom(SubSeq(seq, 1, Len(seq) - 1))
             d == seq[Len(seq)]
             Before(e) == e.from <= d.from
             After(e) == e.from > d.from
         IN  SelectSeq(sorted, Before) \o <<d>> \o SelectSeq(sorted, After)

\* setDecorations(decorationSets): the decorations compartment of the editor
\* is reconfigured with the decorations of all the sets, or with nothing
setDecorations(s, decorationSets) ==
    IF decorationSets = <<>> THEN [s EXCEPT !.editor.extension = <<>>]
    ELSE [s EXCEPT !.editor.extension =
              SortByFrom(AllDecorations(s.editor.doc, decorationSets))]

\* the watcher of the decorations property
decorations(s, newDecorations) ==
    setDecorations([s EXCEPT !.editor.decorations = newDecorations],
                   newDecorations)

\* the callback highlightLines hands to setTimeout: the sets of the
\* decorations property, without a highlight, are applied
onTimeout(s) ==
    setDecorations(s, ObjectDelete(s.editor.decorations, "_highlight"))

\* highlightLines(lineIndices, cssClass, durationMs); applied keeps the
\* duration of the call that applied a highlight last and the time since
highlightLines(s, lineIndices, cssClass, durationMs) ==
    LET doc == s.editor.doc
        InDoc(idx) == idx >= 0 /\ idx < Len(doc)
        valid == SelectSeq(lineIndices, InDoc)
        lineDecorations ==
            [k \in 1..Len(valid) |->
                [kind |-> "line", line |-> valid[k] + 1, class |-> cssClass]]
        current == ObjectSet(s.editor.decorations, "_highlight", lineDecorations)
        firstLineNum == MathMin(lineIndices) + 1
        line == Max(1, Min(firstLineNum, Len(doc)))
        s1 == [setDecorations(s, current)
                  EXCEPT !.editor.scrollIntoView = LineFrom(doc, line),
                         !.editor.applied = [duration |-> durationMs, age |-> 0]]
    IN  IF lineDecorations = <<>> THEN s
        ELSE IF durationMs > 0
        THEN [s1 EXCEPT !.editor.timers = Append(@, durationMs)]
        ELSE s1

\* the editor as its mounted() leaves it, on a document of three lines: no
\* decoration applied yet, no timer
EditorView ==
    [doc |-> <<2, 0, 3>>, decorations |-> <<>>, extension |-> <<>>,
     scrollIntoView |-> 0, timers |-> <<>>,
     applied |-> [duration |-> 0, age |-> 0]]

\* the state mounted() leaves besides the renderer and the interval
Mounted ==
    /\ editor = EditorView
    /\ is_initialized = FALSE
    /\ objects = (SceneId :> SceneNode)
    /\ nodes = (SceneNode :> SceneRoot)
    /\ draggable_objects = <<>>
    /\ transform_controls = <<>>
    /\ helpers = <<>>
    /\ dragging_count = 0
    /\ controls = NewOrbitControls(1)
    /\ camera = Camera0
    /\ look_at = Origin
    /\ camera_tween = [id |-> NoTween, playing |-> FALSE, elapsed |-> 0,
                       from |-> Camera0.position \o Camera0.up \o Origin,
                       to |-> Camera0.position \o Camera0.up \o Origin,
                       camera_up_changed |-> FALSE]
    /\ call = [args |-> NoArgs, sample |-> Camera0.position \o Camera0.up \o Origin,
               tween |-> NoTween]
    /\ drag_selected = NoNode
    /\ last = [op |-> "mounted", id |-> "none", thrown |-> FALSE,
               returned |-> "undefined", gizmo |-> "none", emitted |-> <<>>,
               updated |-> NoTween, completed |-> NoTween, input |-> <<>>,
     observed |-> <<>>]

\* the component with its renderer, polling for the connection
Init == Mounted /\ mount = mounted(TRUE)

\* the component mounted where WebGL is available or not
InitMount == Mounted /\ \E webgl \in BOOLEAN : mount = mounted(webgl)

\* the gizmo of object_id is in a drag (TransformControls.dragging)
MidDrag(object_id) ==
    /\ object_id \in DOMAIN transform_controls
    /\ transform_controls[object_id].dragging

\* the gizmo of object_id as the handler finds it
GizmoStatus(object_id) ==
    IF object_id \notin DOMAIN transform_controls THEN "none"
    ELSE IF transform_controls[object_id].dragging THEN "dragging" ELSE "idle"

\* the handler op(id) ran and left the component in s; c is the latest
\* move_camera call
CommitCall(s, op, id, c) ==
    /\ is_initialized' = s.is_initialized
    /\ objects' = s.objects
    /\ nodes' = Collect(s).nodes
    /\ draggable_objects' = s.draggable_objects
    /\ transform_controls' = s.transform_controls
    /\ helpers' = s.helpers
    /\ dragging_count' = s.dragging_count
    /\ controls' = s.controls
    /\ camera' = s.camera
    /\ look_at' = s.look_at
    /\ camera_tween' = s.camera_tween
    /\ call' = c
    /\ drag_selected' = s.drag_selected
    /\ editor' = s.editor
    /\ mount' = s.mount
    /\ last' = [op |-> op, id |-> id, thrown |-> s.thrown,
                returned |-> s.returned, gizmo |-> GizmoStatus(id),
                emitted |-> s.emitted, updated |-> s.updated,
                completed |-> s.completed, input |-> s.input,
                observed |-> s.observed]

Commit(s, op, id) == CommitCall(s, op, id, call)

----------------------------------------------------------------------------
(* Inputs *)

ParentIds == Ids \cup {SceneId}
Types == {"group", "box"}

Row(type, id, parent_id, isDraggable) ==
    [type |-> type, id |-> id, parent_id |-> parent_id, name |-> id,
     color |-> "#ff0000", opacity |-> 1, side |-> "front",
     position |-> Origin, R |-> Identity, scale |-> <<1, 1, 1>>,
     visible |-> TRUE, draggable |-> isDraggable]

\* the object lists the controller may hold when the client mounts
InitData ==
    { <<>>,
      <<Row("box", "a", SceneId, FALSE)>>,
      <<Row("group", "a", SceneId, FALSE), Row("box", "b", "a", TRUE)>> }

Created == Cardinality(DOMAIN nodes) - 1

----------------------------------------------------------------------------
(* Actions: commands of the controller *)

\* init_objects is sent once, in answer to the init event
InitObjects(data) ==
    /\ ~is_initialized
    /\ Commit([init_objects(State, data) EXCEPT !.input = <<data>>],
              "init_objects", "none")

Create(type, id, parent_id) ==
    /\ Created < MaxNodes
    /\ Commit(create(State, type, id, parent_id), "create", id)

Name(id, value) == Commit(name(State, id, value), "name", id)

Material(id, color, opacity, side) ==
    Commit(material(State, id, color, opacity, side), "material", id)

Move(id, p) == Commit(move(State, id, p), "move", id)

Scale(id, v) == Commit(scale(State, id, v), "scale", id)

Rotate(id, R) == Commit(rotate(State, id, R), "rotate", id)

Visible(id, value) == Commit(visible(State, id, value), "visible", id)

Draggable(id, value) ==
    /\ (value /\ id \in DOMAIN objects) => Len(draggable_objects) < MaxDraggable
    /\ Commit(draggable(State, id, value), "draggable", id)

Delete(id) == Commit(delete(State, id), "delete", id)

EnableTransformControls(id, mode, visible_axes) ==
    Commit(enable_transform_controls(State, id, mode, visible_axes),
           "enable_transform_controls", id)

DisableTransformControls(id) ==
    Commit(disable_transform_controls(State, id), "disable_transform_controls", id)

SetTransformMode(id, mode) ==
    Commit(set_transform_mode(State, id, mode), "set_transform_mode", id)

Attach(id, parent_id, p, R) ==
    Commit(attach(State, id, parent_id, p, R), "attach", id)

Detach(id, p, R) == Commit(detach(State, id, p, R), "detach", id)

SetClippingPlanes(id, planes) ==
    Commit(set_clipping_planes(State, id, planes), "set_clipping_planes", id)

ClearClippingPlanes(id) ==
    Commit(clear_clipping_planes(State, id), "clear_clipping_planes", id)

SetOrbitEnabled(flag) ==
    Commit(set_orbit_enabled(State, flag), "set_orbit_enabled", "none")

\* the interpolation of every frame stays on the grid of the coordinates
OnGrid(s, args) ==
    \A i \in 1..9 : (Target(s, args)[i] - Sample(s)[i]) % TweenFrames = 0

MoveCamera(args) ==
    /\ OnGrid(State, args)
    /\ CommitCall(move_camera(State, args), "move_camera", "none",
                  [args |-> args, sample |-> Sample(State),
                   tween |-> Fresh(camera_tween.id)])

----------------------------------------------------------------------------
(* Actions: pointer input and the render loop *)

\* the handle of an axis can be picked while the axis is shown
Shown(tc, axis) ==
    \/ axis = "X" /\ tc.showX
    \/ axis = "Y" /\ tc.showY
    \/ axis = "Z" /\ tc.showZ

\* a press on a handle of the gizmo of id; a gizmo already dragging ignores it
GizmoPointerDown(id, axis) ==
    /\ id \in DOMAIN transform_controls
    /\ ~transform_controls[id].dragging
    /\ Shown(transform_controls[id], axis)
    /\ Commit(pointerDown(State, id, axis), "pointerDown", id)

GizmoPointerUp(id) ==
    /\ id \in DOMAIN transform_controls
    /\ Commit(pointerUp(State, id), "pointerUp", id)

\* the gizmo of id dispatches "change": a pointer move of a drag, or a
\* notification that reaches an idle gizmo
GizmoChange(id) ==
    /\ id \in DOMAIN transform_controls
    /\ Commit(dispatch(State, id, transform_controls[id].listeners), "change", id)

\* DragControls: a press on a draggable object selects it
DragStart(n) ==
    /\ drag_selected = NoNode
    /\ n \in Range(draggable_objects)
    /\ Commit([handleDrag(State, "dragstart", n) EXCEPT !.drag_selected = n],
              "dragstart", nodes[n].object_id)

DragMove ==
    /\ drag_selected # NoNode
    /\ Commit(handleDrag(State, "drag", drag_selected),
              "drag", nodes[drag_selected].object_id)

DragEnd ==
    /\ drag_selected # NoNode
    /\ Commit([handleDrag(State, "dragend", drag_selected)
                   EXCEPT !.drag_selected = NoNode],
              "dragend", nodes[drag_selected].object_id)

\* DragControls moves the selected object to the pointer, then dispatches
\* "drag"
DragTo(position) ==
    /\ drag_selected # NoNode
    /\ Commit(handleDrag([State EXCEPT !.nodes[drag_selected].position = position],
                         "drag", drag_selected),
              "drag", nodes[drag_selected].object_id)

\* render(): camera_tween.update() at a frame before the end of the tween
Frame ==
    /\ camera_tween.playing
    /\ camera_tween.elapsed + 1 < TweenFrames
    /\ Commit(update(State, camera_tween.elapsed + 1), "render", "none")

\* render(): camera_tween.update() reaches the end of the tween
TweenComplete ==
    /\ camera_tween.playing
    /\ Commit(update(State, TweenFrames), "tween_complete", "none")

\* render() once the tween is over: update() of a tween that is not playing
Idle ==
    /\ ~camera_tween.playing
    /\ Commit(update(State, TweenFrames), "render", "none")

\* the lists of up to MaxHits different objects out of a set
Lists(S) ==
    UNION {{q \in [1..n -> S] : \A i, j \in 1..n : q[i] = q[j] => i = j} :
             n \in 0..MaxHits}

\* the pick rays of the clicks
Rays ==
    {[origin |-> o, direction |-> d] :
        o \in {<<0, -3, 5>>, <<2, 0, 0>>, <<0, 1, -2>>},
        d \in {<<0, 0, -1>>, <<1, 0, 0>>, <<1, 1, 1>>}}

\* a click on the canvas
Click(ray, intersections) ==
    Commit(click_handler(State, ray, intersections), "click", "none")

\* the user orbits with the mouse: OrbitControls moves the camera
OrbitInput(p) ==
    /\ controls.enabled
    /\ Commit([State EXCEPT !.camera.position = p], "orbit", "none")

----------------------------------------------------------------------------
(* Specifications *)

\* the registry and the gizmos with their drag reference count
Next ==
    \/ \E data \in InitData : InitObjects(data)
    \/ \E id \in Ids : \E parent_id \in ParentIds \ {id} :
           Create("group", id, parent_id)
    \/ \E id \in Ids : Delete(id)
    \/ \E id \in Ids : EnableTransformControls(id, "translate", NullAxes)
    \/ \E id \in Ids : DisableTransformControls(id)
    \/ \E id \in Ids : GizmoPointerDown(id, "X")
    \/ \E id \in Ids : GizmoPointerUp(id)
    \/ \E flag \in BOOLEAN : SetOrbitEnabled(flag)

Spec == Init /\ [][Next]_vars

\* every writer of the orbit controls' enabled flag: gizmo drags, free drags,
\* set_orbit_enabled and the camera tween, over the objects of init_objects
NextOrbit ==
    \/ \E data \in InitData : InitObjects(data)
    \/ \E id \in Ids : Delete(id)
    \/ \E id \in Ids : EnableTransformControls(id, "translate", NullAxes)
    \/ \E id \in Ids : DisableTransformControls(id)
    \/ \E id \in Ids : GizmoPointerDown(id, "X")
    \/ \E id \in Ids : GizmoPointerUp(id)
    \/ \E flag \in BOOLEAN : SetOrbitEnabled(flag)
    \/ \E args \in {NoArgs, Up(0, 0, Unit)} : MoveCamera(args)
    \/ \E n \in DOMAIN nodes : DragStart(n)
    \/ DragMove
    \/ DragEnd
    \/ TweenComplete

SpecOrbit == Init /\ [][NextOrbit]_vars

\* pointer input and the render loop alone touch the orbit controls: gizmo
\* drags, free drags and the camera tween, with no set_orbit_enabled command
NextInput ==
    \/ \E data \in InitData : InitObjects(data)
    \/ \E id \in Ids : Delete(id)
    \/ \E id \in Ids : EnableTransformControls(id, "translate", NullAxes)
    \/ \E id \in Ids : DisableTransformControls(id)
    \/ \E id \in Ids : GizmoPointerDown(id, "X")
    \/ \E id \in Ids : GizmoPointerUp(id)
    \/ \E args \in {NoArgs, Up(0, 0, Unit)} : MoveCamera(args)
    \/ \E n \in DOMAIN nodes : DragStart(n)
    \/ DragMove
    \/ DragEnd
    \/ TweenComplete

SpecInput == Init /\ [][NextInput]_vars

\* the registry, the scene graph and the draggable set, under a controller
\* that names as parent an object it has created (and not the object itself)
NextGraph ==
    \/ \E data \in InitData : InitObjects(data)
    \/ \E id \in Ids : \E parent_id \in (DOMAIN objects) \ {id} :
           Create("group", id, parent_id)
    \/ \E id \in Ids : Delete(id)
    \/ \E id \in Ids, value \in BOOLEAN : Draggable(id, value)
    \/ \E id \in Ids, parent_id \in ParentIds : Attach(id, parent_id, Origin, Identity)
    \/ \E id \in Ids : Detach(id, Origin, Identity)
    \/ \E id \in Ids : EnableTransformControls(id, "translate", NullAxes)

SpecGraph == Init /\ [][NextGraph]_vars

\* the mutators, on the object "a" of init_objects and on ids never created
NextMutators ==
    \/ \E data \in {<<>>, <<Row("box", "a", SceneId, FALSE)>>} : InitObjects(data)
    \/ \E id \in Ids : Delete(id)
    \/ \E id \in Ids : Name(id, "n")
    \/ \E id \in Ids : Material(id, "null", 1, "back")
    \/ \E id \in Ids : Move(id, <<1, 2, 3>>)
    \/ \E id \in Ids : Scale(id, <<2, 2, 2>>)
    \/ \E id \in Ids : Rotate(id, RotZ)
    \/ \E id \in Ids, value \in BOOLEAN : Visible(id, value)
    \/ \E id \in Ids, value \in BOOLEAN : Draggable(id, value)
    \/ \E id \in Ids : EnableTransformControls(id, "translate", NullAxes)
    \/ \E id \in Ids : DisableTransformControls(id)
    \/ \E id \in Ids : GizmoPointerDown(id, "X")

SpecMutators == Init /\ [][NextMutators]_vars

\* create with any parent_id the controller may name, the new object's own id
\* and ids never created included
NextCreate ==
    \/ \E data \in InitData : InitObjects(data)
    \/ \E type \in Types, id \in Ids, parent_id \in ParentIds :
           Create(type, id, parent_id)
    \/ \E id \in Ids : Delete(id)
    \/ \E id \in Ids : Name(id, "n")

SpecCreate == Init /\ [][NextCreate]_vars

\* object lists with one row per id: parents listed first, a parent listed
\* after its child, a parent that is missing
InitRows ==
    InitData \cup
    { <<Row("box", "a", SceneId, TRUE), Row("group", "b", SceneId, FALSE)>>,
      <<Row("box", "b", "a", FALSE), Row("group", "a", SceneId, FALSE)>>,
      <<Row("group", "a", SceneId, FALSE), Row("box", "b", "c", FALSE)>> }

\* a controller that sends commands before init_objects: its create
\* commands come early, the mutators early or late
NextInit ==
    \/ \E data \in InitRows : InitObjects(data)
    \/ \E type \in Types, id \in Ids, parent_id \in ParentIds :
           ~is_initialized /\ Create(type, id, parent_id)
    \/ \E id \in Ids : Delete(id)
    \/ \E id \in Ids : Name(id, "n")
    \/ \E id \in Ids : Move(id, <<1, 2, 3>>)
    \/ \E id \in Ids, value \in BOOLEAN : Draggable(id, value)

SpecInit == Init /\ [][NextInit]_vars

\* the loaders: a request resolves or fails at any time after it was made,
\* whatever became of the object it was made for
SetTextureUrl(id, url) ==
    Commit([set_texture_url(State, id, url) EXCEPT !.input = <<url>>],
           "set_texture_url", id)

Load(mesh, load) ==
    /\ mesh \in DOMAIN nodes
    /\ load \in nodes[mesh].loading
    /\ Commit([onLoad(State, mesh, load) EXCEPT !.input = <<mesh, load>>],
              "load", nodes[mesh].object_id)

LoadError(mesh, load) ==
    /\ mesh \in DOMAIN nodes
    /\ load \in nodes[mesh].loading
    /\ Commit([onError(State, mesh, load) EXCEPT !.input = <<mesh, load>>],
              "load_error", nodes[mesh].object_id)

LoadTypes == {"gltf", "stl", "texture"}
Urls == {"u", "v"}
Loads == {Pending(kind, "url") : kind \in {"gltf", "stl", "image"}}
             \cup {Pending("texture", url) : url \in Urls}
NodeIds == 1..MaxNodes

NextLoad ==
    \/ InitObjects(<<>>)
    \/ \E type \in LoadTypes : Create(type, "a", SceneId)
    \/ Delete("a")
    \/ \E mesh \in NodeIds, load \in Loads : Load(mesh, load)
    \/ \E mesh \in NodeIds, load \in Loads : LoadError(mesh, load)

SpecLoad == Init /\ [][NextLoad]_vars

\* the texture of registered objects is replaced while loads come back
NextUrl ==
    \/ \E data \in InitData : InitObjects(data)
    \/ \E id \in Ids, url \in Urls : SetTextureUrl(id, url)
    \/ \E mesh \in NodeIds, load \in Loads : Load(mesh, load)
    \/ \E mesh \in NodeIds, load \in Loads : LoadError(mesh, load)

SpecUrl == Init /\ [][NextUrl]_vars

\* the editor: highlightLines commands, changes of the decorations property,
\* and the timers of setTimeout
HighlightLines(lineIndices, cssClass, durationMs) ==
    /\ durationMs > 0 => Len(editor.timers) < MaxTimers
    /\ Commit([highlightLines(State, lineIndices, cssClass, durationMs)
                  EXCEPT !.input = <<lineIndices, cssClass, durationMs>>],
              "highlightLines", "none")

DecorationsChanged(newDecorations) ==
    /\ newDecorations # editor.decorations
    /\ Commit(decorations(State, newDecorations), "decorations", "none")

\* a millisecond passes: no timer is due, every pending timer comes closer
Tick ==
    /\ editor.timers # <<>>
    /\ \A k \in 1..Len(editor.timers) : editor.timers[k] > 0
    /\ Commit([State EXCEPT
                  !.editor.timers = [k \in 1..Len(@) |-> @[k] - 1],
                  !.editor.applied.age = Min(@ + 1, editor.applied.duration)],
              "tick", "none")

\* the timer that is due fires: of several due at once, the one set first
Timeout ==
    /\ \E k \in 1..Len(editor.timers) : editor.timers[k] = 0
    /\ LET k == CHOOSE i \in 1..Len(editor.timers) :
                    /\ editor.timers[i] = 0
                    /\ \A j \in 1..(i - 1) : editor.timers[j] # 0
       IN  Commit(onTimeout([State EXCEPT !.editor.timers = Splice(@, k)]),
                  "timeout", "none")

LineLists == {<<0>>, <<2, 7>>, <<5>>}
Durations == {0, 1, 2}
DiffLines == <<[key |-> "diff", specs |->
                   <<[kind |-> "line", line |-> 3, class |-> "cm-diff-line-added"],
                     [kind |-> "line", line |-> 1, class |-> "cm-diff-line-added"]>>]>>

NextEditor ==
    \/ \E lineIndices \in LineLists, durationMs \in Durations :
           HighlightLines(lineIndices, "cm-highlighted", durationMs)
    \/ \E newDecorations \in {<<>>, DiffLines} : DecorationsChanged(newDecorations)
    \/ Tick
    \/ Timeout

SpecEditor == Init /\ [][NextEditor]_vars

\* the transport: window.socket gets its id when the connection is made
Connect ==
    /\ mount.socket_id = Null
    /\ Commit([State EXCEPT !.mount.socket_id = Num(1)], "connect", "none")

\* connectInterval fires every 100 ms until it is cleared
ConnectTick ==
    /\ mount.connectInterval
    /\ Commit(connectInterval(State), "connectInterval", "none")

\* the controller answers the init event with init_objects
InitObjectsOnInit(data) ==
    /\ mount.inits > 0
    /\ InitObjects(data)

\* mounting, the connection, and the commands that follow the init event
NextMount ==
    \/ Connect
    \/ ConnectTick
    \/ \E data \in InitData : InitObjectsOnInit(data)
    \/ \E type \in Types, id \in Ids : Create(type, id, SceneId)
    \/ \E id \in Ids : Delete(id)
    \/ \E id \in Ids : Name(id, "n")

SpecMount == InitMount /\ [][NextMount]_vars

\* setInterval keeps firing the callback while the interval is not cleared
SpecMountFair == SpecMount /\ WF_vars(ConnectTick)

\* the rotations the controller sends: none, a quarter turn about each axis
\* and back, and two quarter turns combined
Rotations == {Identity, RotX, RotY, RotZ, Transpose(RotZ), Transpose(RotY), RotXZ}

NextRotate ==
    \/ \E data \in InitData : InitObjects(data)
    \/ \E id \in Ids, R \in Rotations : Rotate(id, R)
    \/ \E id \in Ids : Delete(id)

SpecRotate == Init /\ [][NextRotate]_vars

\* textured surfaces: every grid of one or two rows of up to MaxI points,
\* each point given or missing; the controller creates an id once
CreateTexture(id, parent_id, coords) ==
    /\ id \notin DOMAIN objects
    /\ Commit(create_texture(State, id, parent_id, coords), "create", id)

SetTextureCoordinates(id, coords) ==
    Commit(set_texture_coordinates(State, id, coords),
           "set_texture_coordinates", id)

Grids ==
    UNION {[1..nJ -> [1..nI -> {Null, <<1, 2, 3>>}]] : nJ \in 1..2, nI \in 1..MaxI}

NextTexture ==
    \/ InitObjects(<<>>)
    \/ \E coords \in Grids : CreateTexture("a", SceneId, coords)
    \/ \E coords \in Grids : SetTextureCoordinates("a", coords)

SpecTexture == Init /\ [][NextTexture]_vars

\* the texts of drag_constraints: "", "z = 0", "x = 0, x = 1",
\* "x = y, y = x", "y = z + 1, x = y * 2 - z"
ConstraintTexts ==
    { <<>>,
      <<Letter("z"), Sign("="), Number(0)>>,
      <<Letter("x"), Sign("="), Number(0), Sign(","),
        Letter("x"), Sign("="), Number(1)>>,
      <<Letter("x"), Sign("="), Letter("y"), Sign(","),
        Letter("y"), Sign("="), Letter("x")>>,
      <<Letter("y"), Sign("="), Letter("z"), Sign("+"), Number(1), Sign(","),
        Letter("x"), Sign("="), Letter("y"), Sign("*"), Number(2),
        Sign("-"), Letter("z")>> }

\* the component mounted with one of the texts as drag_constraints
InitDrag ==
    Mounted /\ \E text \in ConstraintTexts :
                   mount = [mounted(TRUE) EXCEPT !.drag_constraints = text]

PointerPositions == {<<1, 2, 3>>, <<-1, 0, 2>>}

NextDrag ==
    \/ InitObjects(<<Row("box", "a", SceneId, TRUE)>>)
    \/ \E id \in Ids : Move(id, <<3, 1, 2>>)
    \/ \E id \in Ids : Name(id, "n")
    \/ \E n \in DOMAIN nodes : DragStart(n)
    \/ \E position \in PointerPositions : DragTo(position)
    \/ DragEnd

SpecDrag == InitDrag /\ [][NextDrag]_vars

\* the camera: move_camera calls, the frames of the render loop and the
\* orbit input of the user
NextCamera ==
    \/ \E args \in {OnlyX(Unit), Up(0, Unit, 0), Up(0, 0, Unit),
                     LookAt(Unit, 0, 0)} : MoveCamera(args)
    \/ Frame
    \/ TweenComplete
    \/ Idle
    \/ \E p \in {Camera0.position, <<3 * Unit, 0, 5 * Unit>>} : OrbitInput(p)

SpecCamera == Init /\ [][NextCamera]_vars

\* the render loop runs on requestAnimationFrame and calls TWEEN.update() in
\* every frame: a tween that is playing reaches the end of its duration
NextTween ==
    \/ \E args \in {OnlyX(Unit), OnlyX(0), Up(0, Unit, 0), Up(0, 0, Unit)} :
          MoveCamera(args)
    \/ Frame
    \/ TweenComplete
    \/ Idle

SpecTween == Init /\ [][NextTween]_vars /\ WF_vars(TweenComplete)

\* clicks on a scene with the ground, the grid, one box and its gizmo
NextClick ==
    \/ \E data \in {<<>>, <<Row("box", "a", SceneId, FALSE)>>} : InitObjects(data)
    \/ \E id \in {"a"} : EnableTransformControls(id, "translate", NullAxes)
    \/ \E id \in {"a"} : Delete(id)
    \/ \E ray \in Rays : \E intersections \in Lists(Pickable(State)) :
           Click(ray, intersections)

SpecClick == Init /\ [][NextClick]_vars

\* the planes {nx, ny, nz, d} of the clipping commands
PlaneX == [nx |-> 2, ny |-> 0, nz |-> 0, d |-> 1]
PlaneZ == [nx |-> 0, ny |-> 0, nz |-> -3, d |-> 0]
PlaneSets == {<<>>, <<PlaneX>>, <<PlaneZ>>, <<PlaneX, PlaneZ>>}

\* clipping of a box "a" that carries a box "b", of a group "a" that carries
\* a box "b", of the whole scene, and of ids never created
NextClip ==
    \/ \E data \in {<<Row("box", "a", SceneId, FALSE), Row("box", "b", "a", FALSE)>>,
                     <<Row("group", "a", SceneId, FALSE), Row("box", "b", "a", FALSE)>>,
                     <<Row("box", "a", SceneId, FALSE)>>} : InitObjects(data)
    \/ \E id \in Ids \cup {SceneId}, planes \in PlaneSets :
           SetClippingPlanes(id, planes)
    \/ \E id \in Ids \cup {SceneId} : ClearClippingPlanes(id)
    \/ \E id \in Ids : Detach(id, Origin, Identity)
    \/ \E id \in Ids : Delete(id)

SpecClip == Init /\ [][NextClip]_vars

Modes == {"translate", "rotate"}

\* the gizmos: created, reconfigured and disposed by commands, pressed,
\* moved and released by the pointer
NextGizmo ==
    \/ \E data \in InitData : InitObjects(data)
    \/ \E id \in Ids : Delete(id)
    \/ \E id \in Ids, mode \in Modes, visible_axes \in {NullAxes, AxesOf(<<"X">>)} :
           EnableTransformControls(id, mode, visible_axes)
    \/ \E id \in Ids : DisableTransformControls(id)
    \/ \E id \in Ids, mode \in Modes : SetTransformMode(id, mode)
    \/ \E id \in Ids, axis \in {"X", "Y"} : GizmoPointerDown(id, axis)
    \/ \E id \in Ids : GizmoPointerUp(id)
    \/ \E id \in Ids : GizmoChange(id)

SpecGizmo == Init /\ [][NextGizmo]_vars

----------------------------------------------------------------------------
(* Properties *)

\* the ids whose gizmo is alive and has its drag session open
DraggingGizmos ==
    {id \in DOMAIN transform_controls : transform_controls[id].dragging}

Disposals == {"disable_transform_controls", "delete"}

\* C1: in every reachable state dragging_count equals the number of live
\* gizmos whose drag session is open (opened by dragging-changed(true), not
\* yet closed by dragging-changed(false) or by disposal)
C1_CountIsOpenDragSessions == dragging_count = Cardinality(DraggingGizmos)

\* a gizmo was disposed in the middle of its drag while another one drags on
C1_Witness ==
    /\ last.op \in Disposals
    /\ last.gizmo = "dragging"
    /\ dragging_count = 1

\* C2: in every reachable state the orbit controls are enabled only if
\* dragging_count is zero
C2_OrbitEnabledOnlyAtZero == controls.enabled => dragging_count = 0

\* C3: disable_transform_controls(id) or delete(id) on a gizmo in mid-drag
\* decrements dragging_count by exactly one and enables the orbit controls if
\* the count reaches zero; if that gizmo was the only one dragging, the count
\* is zero and the orbit controls are enabled afterwards
C3_DisposalMidDrag ==
    [][(last'.op \in Disposals /\ MidDrag(last'.id))
         => /\ dragging_count' = dragging_count - 1
            /\ dragging_count' = 0 => controls'.enabled
            /\ DraggingGizmos = {last'.id}
                 => (dragging_count' = 0 /\ controls'.enabled)]_vars

\* the only dragging gizmo was deleted with its object while orbit was off
C3_Witness ==
    /\ last.op = "delete"
    /\ last.gizmo = "dragging"
    /\ dragging_count = 0
    /\ controls.enabled

\* C4: with two gizmos in mid-drag, a release of one while the other still
\* drags keeps the orbit controls disabled, and the release of the last one
\* enables them, for either order
C4_OrbitWaitsForBothReleases ==
    [][(last'.op = "pointerUp" /\ MidDrag(last'.id))
         => /\ (DraggingGizmos \ {last'.id} # {} /\ ~controls.enabled)
                 => ~controls'.enabled
            /\ DraggingGizmos \ {last'.id} = {} => controls'.enabled]_vars

\* one of two dragging gizmos was released, the other still drags, orbit is off
C4_Witness ==
    /\ last.op = "pointerUp"
    /\ last.gizmo = "dragging"
    /\ DraggingGizmos # {}
    /\ ~controls.enabled

\* C5: dragging_count is never negative; a disposal that finds the count at
\* zero leaves it at zero
C5_CountNeverNegative == dragging_count >= 0

\* a gizmo that was not dragging was disposed while the count was zero
C5_Witness ==
    /\ last.op \in Disposals
    /\ last.gizmo = "idle"
    /\ dragging_count = 0

\* C6: every registered node other than the root is reachable from the scene
\* root through parent links
C6_RegisteredNodesUnderRoot ==
    \A id \in DOMAIN objects : UnderRoot(nodes, objects[id])

Mutators ==
    {"name", "material", "move", "scale", "rotate", "visible", "draggable",
     "delete", "enable_transform_controls", "disable_transform_controls"}

\* C7: for an id that is not in the registry every mutator raises no error
\* and leaves the registry, the graph, the draggable set, the gizmos,
\* dragging_count and the orbit controls unchanged
C7_UnknownIdIsNoOp ==
    [][(last'.op \in Mutators /\ last'.id \notin DOMAIN objects)
         => /\ ~last'.thrown
            /\ UNCHANGED <<is_initialized, objects, nodes, draggable_objects,
                           transform_controls, helpers, dragging_count,
                           controls, camera, look_at, camera_tween, call,
                           drag_selected>>]_vars

\* a mutator ran on an unknown id while another object, with a gizmo in
\* mid-drag, was registered
C7_Witness ==
    /\ last.op \in Mutators \ {"delete"}
    /\ last.id \notin DOMAIN objects
    /\ "a" \in DOMAIN objects
    /\ dragging_count = 1

\* C8: after delete(id) of a registered id, the id is not in the registry,
\* the node has no parent, and the id has no gizmo and no helper in the scene
C8_DeleteRemovesEverything ==
    [][(last'.op = "delete" /\ last'.id \in DOMAIN objects)
         => LET object == objects[last'.id]
            IN  /\ last'.id \notin DOMAIN objects'
                /\ object \in DOMAIN nodes' => nodes'[object].parent = NoNode
                /\ last'.id \notin DOMAIN transform_controls'
                /\ last'.id \notin Range(helpers')]_vars

\* an object that had a gizmo was deleted
C8_Witness ==
    /\ last.op = "delete"
    /\ last.gizmo # "none"
    /\ last.id \notin DOMAIN objects
    /\ helpers = <<>>

\* C9: after delete(id) of a registered object the deleted node is not in
\* the draggable set
C9_DeletePrunesDraggable ==
    [][(last'.op = "delete" /\ last'.id \in DOMAIN objects)
         => objects[last'.id] \notin Range(draggable_objects')]_vars

\* C10: every node in the graph under the root is the node the registry maps
\* its object_id to, so at most one node per object_id is in the graph
C10_ObjectIdUnique ==
    \A n \in DOMAIN nodes \ {SceneNode} :
        UnderRoot(nodes, n)
            => /\ nodes[n].object_id \in DOMAIN objects
               /\ objects[nodes[n].object_id] = n

\* C11: a create issued after initialization with a parent_id that is not in
\* the registry raises an error to the caller
C11_UnknownParentThrows ==
    [][\A type \in Types, id \in Ids, parent_id \in ParentIds :
         (/\ is_initialized
          /\ parent_id \notin DOMAIN objects
          /\ Create(type, id, parent_id))
            => last'.thrown]_vars

\* the events of one type that a step emitted for one object
Emitted(events, type, object_id) ==
    {i \in 1..Len(events) :
        events[i] = [type |-> type, object_id |-> object_id]}

\* every gizmo is registered under one id, has one helper in the scene and
\* one set of listeners
OneGizmoPerObject ==
    /\ Range(helpers) = DOMAIN transform_controls
    /\ Len(helpers) = Cardinality(DOMAIN transform_controls)
    /\ \A id \in DOMAIN transform_controls : transform_controls[id].listeners = 1

\* C12: across enable_transform_controls, disable_transform_controls and
\* delete there is at most one gizmo per object_id; a repeated
\* enable_transform_controls for an id that has a gizmo keeps that gizmo, adds
\* no helper and no listeners; one change notification during a drag emits
\* exactly one transform event
C12_OneGizmoPerObject ==
    [][/\ OneGizmoPerObject'
       /\ (last'.op = "enable_transform_controls"
             /\ last'.id \in DOMAIN transform_controls)
            => /\ helpers' = helpers
               /\ DOMAIN transform_controls' = DOMAIN transform_controls
               /\ transform_controls'[last'.id].object =
                      transform_controls[last'.id].object
               /\ transform_controls'[last'.id].dragging =
                      transform_controls[last'.id].dragging
       /\ (last'.op = "change" /\ MidDrag(last'.id))
            => Cardinality(Emitted(last'.emitted, "transform", last'.id)) = 1]_vars

\* a repeated enable_transform_controls reconfigured one of two gizmos in the
\* middle of its drag: the setters notified, the scene holds the two helpers
C12_Witness ==
    /\ last.op = "enable_transform_controls"
    /\ last.gizmo = "dragging"
    /\ last.emitted # <<>>
    /\ Len(helpers) = 2

\* C13: a transform event is emitted for a gizmo only while that gizmo is
\* dragging (before or after the step that emits it); a change notification
\* that reaches an idle gizmo emits nothing, whatever other gizmo is dragging
C13_TransformOnlyWhileDragging ==
    [][/\ \A id \in Ids :
            Emitted(last'.emitted, "transform", id) # {}
                => (MidDrag(id) \/ MidDrag(id)')
       /\ (last'.op = "change" /\ ~MidDrag(last'.id))
            => last'.emitted = <<>>]_vars

\* a change notification reached an idle gizmo, released after a drag, while
\* the gizmo of another object was dragging
C13_Witness ==
    /\ last.op = "change"
    /\ last.gizmo = "idle"
    /\ last.emitted = <<>>
    /\ dragging_count = 1

\* C14: from the dragstart of a free drag to its dragend the orbit controls
\* are disabled in every state, whatever interleaves with the drag, and they
\* are enabled by the dragend
C14_OrbitDisabledDuringFreeDrag ==
    /\ drag_selected # NoNode => ~controls.enabled
    /\ last.op = "dragend" => controls.enabled

\* the nine numbers the latest move_camera call asked for: each argument, or
\* the value the camera had at the call where the argument is null
Requested(c) ==
    LET a == c.args
        given == <<a.x, a.y, a.z, a.up_x, a.up_y, a.up_z,
                   a.look_at_x, a.look_at_y, a.look_at_z>>
    IN  [i \in 1..9 |-> IF given[i] = Null THEN c.sample[i] ELSE given[i][1]]

\* the values on the way from the camera at the latest call to its request
OnTheWay(c) ==
    {[i \in 1..9 |->
         c.sample[i] + ((Requested(c)[i] - c.sample[i]) * k) \div TweenFrames] :
       k \in 1..TweenFrames}

\* C15: at most one camera tween is active, the one of the latest
\* move_camera call: every frame that applies tween values applies values of
\* that tween, and no completion callback of an earlier tween runs
C15_OneActiveTween ==
    [][/\ camera_tween'.playing => camera_tween'.id = call'.tween
       /\ last'.updated # NoTween
            => /\ last'.updated = call.tween
               /\ camera'.position \o camera'.up \o look_at' \in OnTheWay(call)
       /\ last'.completed # NoTween => last'.completed = call.tween]_vars

\* a tween completed that had replaced another one halfway to x = 1
C15_Witness ==
    /\ last.completed # NoTween
    /\ call.sample[1] = Unit \div 2
    /\ camera.position[1] = Unit \div 2
    /\ look_at[1] = Unit

\* the latest move_camera call gave x and left every other argument null
OnlyXCall == call.args.x # Null /\ [call.args EXCEPT !.x = Null] = NoArgs

\* C16: when the tween of a move_camera call with only x given completes,
\* the camera is at the given x, and y, z, the up vector and the look-at
\* target have the values they had at the time of the call
C16_UnchangedHoldsCurrent ==
    [][(last'.completed # NoTween /\ OnlyXCall)
         => /\ camera'.position =
                  <<call.args.x[1], call.sample[2], call.sample[3]>>
            /\ camera'.up = SubSeq(call.sample, 4, 6)
            /\ look_at' = SubSeq(call.sample, 7, 9)]_vars

\* the call found the up vector and the look-at target halfway through
\* earlier tweens, away from every default, and its tween completed
C16_Witness ==
    /\ last.completed # NoTween
    /\ OnlyXCall
    /\ camera.up = <<0, Unit \div 2, Unit \div 2>>
    /\ look_at # Origin
    /\ camera.position[1] = Unit

\* C17: when a camera tween completes, the orbit controls are replaced by a
\* new instance centred on the final look-at target if the tween changed the
\* up vector, and the instance is kept if the up vector did not change
C17_ControlsReplacedIffUpChanged ==
    [][last'.completed # NoTween
         => IF camera'.up # SubSeq(camera_tween.from, 4, 6)
            THEN /\ controls'.instance # controls.instance
                 /\ controls'.target = look_at'
            ELSE controls'.instance = controls.instance]_vars

\* the click3d event of the step, when the step was a click, and the pick
\* ray and the intersections its handler worked on
Click3d == last.emitted[1]
PickRay == last.input[1]
Intersections == last.input[2]

\* the points of a ray (for the rays of the clicks, which meet the plane
\* z = 0 within 2 * Unit steps or never)
PointsOf(ray) == {At(ray, t) : t \in 0..(2 * Unit)}

\* C18 as stated: every click3d event carries a ground_point that is not null
C18_GroundPointNeverNull ==
    last.op = "click" => Click3d.ground_point # Null

\* C18: the ground_point of every click3d event is a point of the pick ray
\* in the plane z = 0, whatever the hits are, and it is null exactly when no
\* point of the ray is in that plane
C18_GroundPointWhereRayMeetsPlane ==
    last.op = "click"
        => IF \E q \in PointsOf(PickRay) : q[3] = 0
           THEN /\ Click3d.ground_point # Null
                /\ Click3d.ground_point[1] \in PointsOf(PickRay)
                /\ Click3d.ground_point[1][3] = 0
           ELSE Click3d.ground_point = Null

\* a click on empty space, away from the origin, found its ground point
C18_Witness ==
    /\ last.op = "click"
    /\ Click3d.hits = <<>>
    /\ Click3d.ground_point = Num(<<0, -3, 0>>)

\* C19 as stated: every hit carries an object_id that is a key of the registry
C19_HitsAreRegistered ==
    last.op = "click"
        => \A i \in 1..Len(Click3d.hits) :
               Click3d.hits[i].object_id \in DOMAIN objects

\* C19: every hit of a click3d event belongs to an object that carries an
\* object_id: a node of create, the ground mesh or a part of a gizmo helper;
\* the hits are those objects among the intersections, in their order, and
\* the grid, which carries none, is never a hit
C19_HitsCarryObjectId ==
    last.op = "click"
        => /\ \A i \in 1..Len(Click3d.hits) :
                  Click3d.hits[i].object_id \in
                      {nodes[n].object_id :
                          n \in {k \in DOMAIN nodes \ {SceneNode} : UnderRoot(nodes, k)}}
                      \cup {"ground"}
                      \cup {HelperTag(id) : id \in Range(helpers)}
           /\ Click3d.hits =
                  SelectSeq(Intersections, LAMBDA o : o.object_id # "undefined")

\* a click went through a handle of the gizmo and the box behind it
C19_Witness ==
    /\ last.op = "click"
    /\ Len(Click3d.hits) = 2
    /\ Click3d.hits[1].object_id = HelperTag("a")
    /\ Click3d.hits[2].object_id = "a"

\* the planes handed to the set_clipping_planes of the step
Planes == last.input[1]

\* C20: after set_clipping_planes(id, P) on a registered id, the node of id
\* and every descendant that carries a material have the planes of P, with
\* their normals normalised, in place of any they had, and clip where any
\* plane clips
C20_SubtreeClippedAlike ==
    [][(last'.op = "set_clipping_planes" /\ last'.id \in DOMAIN objects)
         => \A n \in Traversed(nodes, objects[last'.id]) :
                nodes[n].material.present
                    => /\ nodes'[n].material.clippingPlanes =
                              Num([i \in 1..Len(Planes') |->
                                     [normal |-> Normalize(<<Planes'[i].nx,
                                                             Planes'[i].ny,
                                                             Planes'[i].nz>>),
                                      constant |-> Planes'[i].d]])
                       /\ ~nodes'[n].material.clipIntersection]_vars

\* the box "a" and the box "b" it carries were clipped by one plane, given
\* with a normal of length 3
C20_Witness ==
    /\ last.op = "set_clipping_planes"
    /\ last.id = "a"
    /\ {"a", "b"} \subseteq DOMAIN objects
    /\ nodes[objects["b"]].parent = objects["a"]
    /\ nodes[objects["a"]].material.clippingPlanes =
           Num(<<[normal |-> <<0, 0, -1>>, constant |-> 0]>>)
    /\ nodes[objects["b"]].material.clippingPlanes =
           Num(<<[normal |-> <<0, 0, -1>>, constant |-> 0]>>)

\* C21: after clear_clipping_planes(id) on a registered id, no node of the
\* subtree of id that carries a material has clipping planes, whatever
\* set_clipping_planes calls came before
C21_SubtreeCleared ==
    [][(last'.op = "clear_clipping_planes" /\ last'.id \in DOMAIN objects)
         => \A n \in Traversed(nodes, objects[last'.id]) :
                nodes[n].material.present
                    => nodes'[n].material.clippingPlanes = Null]_vars

\* the box "a" was cleared with the box "b" it carries, both clipped before
C21_Witness ==
    /\ last.op = "clear_clipping_planes"
    /\ last.id = "a"
    /\ {"a", "b"} \subseteq DOMAIN objects
    /\ nodes[objects["b"]].parent = objects["a"]
    /\ nodes[objects["a"]].material.present
    /\ nodes[objects["b"]].material.clippingPlanes = Null
    /\ nodes[objects["b"]].material.clipIntersection = FALSE

\* the object a request was made for is no longer registered nor attached
Deleted(mesh) == mesh \notin Values(objects) /\ nodes[mesh].parent = NoNode

Has(object_id) == has_transform_controls(State, object_id)

\* C23: enable_transform_controls(id, ...) returns false exactly when id is
\* not registered and true otherwise; has_transform_controls(id) becomes
\* true with an enable of id that returned true, becomes false with
\* disable_transform_controls(id) and delete(id), and changes at no other step
C23_EnableAnswersAndHasFollows ==
    [][\A id \in Ids :
          /\ (last'.op = "enable_transform_controls" /\ last'.id = id)
                 => /\ last'.returned = IF id \in DOMAIN objects THEN "true"
                                        ELSE "false"
                    /\ Has(id)' = (Has(id) \/ last'.returned = "true")
          /\ (last'.op \in {"disable_transform_controls", "delete"}
                  /\ last'.id = id) => ~Has(id)'
          /\ ~(last'.op \in {"enable_transform_controls",
                              "disable_transform_controls", "delete"}
                  /\ last'.id = id) => Has(id)' = Has(id)]_vars

\* delete("a") took the gizmo of "a" away and left the gizmo of "b"
C23_Witness ==
    /\ last.op = "delete"
    /\ last.id = "a"
    /\ last.gizmo # "none"
    /\ ~Has("a")
    /\ Has("b")

\* the rendering surface exists and the connection has an id
Ready == mount.renderer = "WebGLRenderer" /\ mount.socket_id # Null

\* C24: init is emitted at most once, never before the renderer exists and
\* the socket has an id, and eventually once both hold; when the renderer
\* cannot be created mounted() ends without an error and init is never
\* emitted
C24_InitOnceWhenReady ==
    /\ [](mount.inits <= 1)
    /\ [](mount.renderer = "undefined" => ~mount.thrown /\ mount.inits = 0)
    /\ [][/\ mount'.inits # mount.inits => Ready /\ mount'.inits = 1
          /\ (\E i \in 1..Len(last'.emitted) : last'.emitted[i].type = "init")
                 => mount'.inits # mount.inits]_vars
    /\ (Ready ~> mount.inits = 1)

\* the interval found the socket connected and emitted init
C24_Witness ==
    /\ last.op = "connectInterval"
    /\ Emitted(last.emitted, "init", "none") = {1}
    /\ mount.inits = 1
    /\ ~mount.connectInterval

\* the orientation of a node as the renderer shows it
Orientation(n) == makeRotationFromEuler(nodes[n].rotation)

\* C25: rotate(id, R) leaves the node with the orientation whose matrix has
\* the rows R[0], R[1], R[2] (the transpose of the basis matrix with these
\* vectors as columns): the identity gives no rotation, a quarter turn
\* gives that quarter turn and not its inverse
C25_RotateAppliesRows ==
    (last.op = "rotate" /\ last.id \in DOMAIN objects)
        => /\ Orientation(objects[last.id]) = last.input[1]
           /\ Orientation(objects[last.id]) =
                  Transpose(MakeBasis(last.input[1][1], last.input[1][2],
                                      last.input[1][3]))

\* a quarter turn about z was applied and is not its inverse
C25_Witness ==
    /\ last.op = "rotate"
    /\ last.id \in DOMAIN objects
    /\ last.input[1] = RotZ
    /\ Orientation(objects[last.id]) = RotZ
    /\ Orientation(objects[last.id]) # Transpose(RotZ)

\* the grid given to texture_geometry and the geometry built from it
Coords == last.input[1]
Geometry == nodes[objects[last.id]].geometry
\* the triangles of the index: three indices each
Triangles == 1..(Len(Geometry.index) \div 3)
Corner(t) == {Geometry.index[3 * t - 2], Geometry.index[3 * t - 1], Geometry.index[3 * t]}
\* the four corner indices of the quad at i, j
Quad(i, j) ==
    LET nI == Len(Coords[1])
    IN  {i + j * nI, i + j * nI + 1, i + j * nI + nI, i + j * nI + 1 + nI}
\* the grid point with this vertex index is given
Present(idx) ==
    LET nI == Len(Coords[1])
    IN  Coords[(idx \div nI) + 1][(idx % nI) + 1] # Null

\* C26: in the geometry built from a grid, every triangle index names a
\* grid point that is given, and every quad whose four corners are given
\* has exactly two triangles, on its corners and covering the four
C26_TrianglesOnPresentPoints ==
    (last.op \in {"create", "set_texture_coordinates"} /\ last.input # <<>>
        /\ last.id \in DOMAIN objects /\ ~last.thrown)
        => /\ Len(Geometry.index) % 3 = 0
           /\ \A k \in 1..Len(Geometry.index) :
                  /\ Geometry.index[k] \in 0..(Len(Geometry.position) - 1)
                  /\ Present(Geometry.index[k])
           /\ \A j \in 0..(Len(Coords) - 2), i \in 0..(Len(Coords[1]) - 2) :
                  (\A idx \in Quad(i, j) : Present(idx))
                      => LET on == {t \in Triangles : Corner(t) \subseteq Quad(i, j)}
                         IN  /\ Cardinality(on) = 2
                             /\ \A t \in on : Cardinality(Corner(t)) = 3
                             /\ UNION {Corner(t) : t \in on} = Quad(i, j)

\* a grid of two rows of three points with one point missing: the quad
\* with its four corners given has its two triangles, the other has none
C26_Witness ==
    /\ last.op = "set_texture_coordinates"
    /\ last.id \in DOMAIN objects
    /\ Len(Coords) = 2
    /\ Len(Coords[1]) = 3
    /\ Coords[1][3] = Null
    /\ \A idx \in Quad(0, 0) : Present(idx)
    /\ Len(Geometry.index) = 6

\* the axes whose handles the gizmo shows
VisibleAxes(tc) == {axis \in {"X", "Y", "Z"} : Shown(tc, axis)}

\* C27: at every transform event of a gizmo that is in rotate mode with
\* exactly one visible axis, the active axis is the locked axis (the lock
\* the gizmo carries, or the one axis it shows)
C27_ActiveAxisIsLockedAxis ==
    \A i \in 1..Len(last.observed) :
        LET tc == last.observed[i]
        IN  (tc.mode = "rotate" /\ Cardinality(VisibleAxes(tc)) = 1)
                => tc.axis = tc.lockAxis \/ tc.axis \in VisibleAxes(tc)

\* a drag event was emitted: what it carried, the position the object had
\* when the listener was called, the constraints of the text
DragEvent == last.op \in {"dragstart", "drag", "dragend"}
Carried == last.observed[1]
InProgress == last.input[1]
Constraints == Split(mount.drag_constraints, ",")
AxisOf(constraint) == IndexOf(<<"x", "y", "z">>, constraint[1].s)
RightHandSide(constraint) == Split(constraint, "=")[2]
IsConstant(constraint) ==
    Len(RightHandSide(constraint)) = 1 /\ RightHandSide(constraint)[1].t = "number"

\* the position after the first k constraints, each applied to the result
\* of the one before
RECURSIVE AppliedInOrder(_)
AppliedInOrder(k) ==
    IF k = 0 THEN InProgress
    ELSE LET before == AppliedInOrder(k - 1)
             constraint == Constraints[k]
             expression == Replace(RightHandSide(constraint), before)
         IN  IF constraint = <<>> THEN before
             ELSE [before EXCEPT ![AxisOf(constraint)] =
                      Eval(expression, 2, 0, expression[1].n)]

\* the event carries the id, the name and the constrained position
CarriesConstrainedPosition ==
    /\ Carried.object_id = last.id
    /\ Carried.object_name = nodes[objects[last.id]].name
    /\ <<Carried.x, Carried.y, Carried.z>> = AppliedInOrder(Len(Constraints))

\* C28 as stated: every drag event carries the id, the name and the
\* position after the constraints were applied in list order, and for
\* every constraint with a constant right-hand side the carried coordinate
\* of its axis is that constant
C28_ConstantAlwaysCarried ==
    DragEvent
        => /\ CarriesConstrainedPosition
           /\ \A k \in 1..Len(Constraints) :
                  (Constraints[k] # <<>> /\ IsConstant(Constraints[k]))
                      => <<Carried.x, Carried.y, Carried.z>>[AxisOf(Constraints[k])]
                             = RightHandSide(Constraints[k])[1].n

\* C28, amended: the same, the constant being carried when no later
\* constraint of the list assigns the same axis
C28_LastConstantCarried ==
    DragEvent
        => /\ CarriesConstrainedPosition
           /\ \A k \in 1..Len(Constraints) :
                  (/\ Constraints[k] # <<>>
                   /\ IsConstant(Constraints[k])
                   /\ \A h \in (k + 1)..Len(Constraints) :
                          Constraints[h] = <<>>
                              \/ AxisOf(Constraints[h]) # AxisOf(Constraints[k]))
                      => <<Carried.x, Carried.y, Carried.z>>[AxisOf(Constraints[k])]
                             = RightHandSide(Constraints[k])[1].n

\* a drag to (1, 2, 3) under "x = y, y = x" carried (2, 2, 3)
C28_Witness ==
    /\ last.op = "drag"
    /\ Len(Constraints) = 2
    /\ InProgress = <<1, 2, 3>>
    /\ <<Carried.x, Carried.y, Carried.z>> = <<2, 2, 3>>
    /\ Carried.object_name = "n"

\* C29: a gizmo that carries an axis lock is in rotate mode and shows
\* exactly one axis, and a press on a gizmo in another mode leaves the
\* active axis to the widget
C29_LockOnlyInSingleAxisRotate ==
    \A id \in DOMAIN transform_controls :
        LET tc == transform_controls[id]
        IN  tc.lockAxis # "none"
                => tc.mode = "rotate" /\ Cardinality(VisibleAxes(tc)) = 1

\* a gizmo drag or a free drag is in progress
DragOpen == dragging_count > 0 \/ drag_selected # NoNode

\* C30: when a camera tween that named an up component completes during a
\* gizmo drag or a free drag, the orbit controls that were disabled are
\* still disabled afterwards: rebuilding them keeps the flag
C30_RebuildKeepsOrbitDisabled ==
    [][(/\ last'.op = "tween_complete"
        /\ last'.completed # NoTween
        /\ camera_tween.camera_up_changed
        /\ DragOpen
        /\ ~controls.enabled) => ~controls'.enabled]_vars

----------------------------------------------------------------------------
(* Camera tweens and the orbit controls *)

\* the tween in flight has moved the up vector away from where it started
UpChangedInFlight ==
    /\ camera_tween.playing
    /\ last.updated = camera_tween.id
    /\ camera.up # SubSeq(camera_tween.from, 4, 6)

\* C31: every change of the camera's up vector made by a tween is eventually
\* followed by a reconstruction of the orbit controls (a new instance takes
\* the place of the one in use at the change), also when a later move_camera
\* call with the up arguments unchanged cancels the tween in flight
C31_UpChangeLeadsToRebuild ==
    \A instance \in 1..2 :
        (UpChangedInFlight /\ controls.instance = instance)
            ~> (controls.instance # instance)

----------------------------------------------------------------------------
(* Disposal of an idle gizmo *)

\* C32: disable_transform_controls(id) on a gizmo that is not in a drag
\* leaves dragging_count and the enabled flag of the orbit controls as they
\* were: orbit input disabled by set_orbit_enabled(false) or by a free drag
\* in progress stays disabled
C32_IdleDisposalKeepsOrbit ==
    [][(/\ last'.op = "disable_transform_controls"
        /\ last'.id \in DOMAIN transform_controls
        /\ ~MidDrag(last'.id))
         => /\ dragging_count' = dragging_count
            /\ controls'.enabled = controls.enabled]_vars

----------------------------------------------------------------------------
(* Parent links *)

\* the parent chain of n leads back to n
OnCycle(ns, n) ==
    /\ ns[n].parent # NoNode
    /\ n \in Ancestors(ns, ns[n].parent)

\* C33: after any sequence of create, attach, detach and delete commands the
\* parent links of the registered nodes contain no cycle, also after
\* attach(id, parent_id, ...) with parent_id the id itself or a descendant
C33_ParentLinksAcyclic ==
    \A id \in DOMAIN objects : ~OnCycle(nodes, objects[id])

----------------------------------------------------------------------------
(* Texture replacement *)

\* the states the component can be in once every load pending for mesh has
\* resolved successfully, in any order
RECURSIVE Resolved(_, _)
Resolved(s, mesh) ==
    IF s.nodes[mesh].loading = {} THEN {s}
    ELSE UNION {Resolved(onLoad(s, mesh, load), mesh) :
                  load \in s.nodes[mesh].loading}

\* C34: once every texture load pending for an object has resolved
\* successfully, its material shows the texture of the most recent
\* set_texture_url(id, url) call for it, whatever loads were in flight when
\* the call was made
C34_LatestUrlShown ==
    [][(last'.op = "set_texture_url" /\ last'.id \in DOMAIN objects)
         => \A s \in Resolved(State', objects[last'.id]) :
                s.nodes[objects[last'.id]].material.map = last'.input[1]]_vars

----------------------------------------------------------------------------
(* Commands before and at init_objects *)

\* the rows handed to the init_objects call of the step
Rows == last.input[1]

\* every row's parent is the root or the id of a row listed before it
ParentsFirst(data) ==
    \A k \in 1..Len(data) :
        data[k].parent_id \in {SceneId} \cup {data[j].id : j \in 1..(k - 1)}

\* the component is as mounted() left it: the registry holds the root alone
\* and the graph is the bare root
NothingCreated ==
    /\ objects = (SceneId :> SceneNode)
    /\ nodes = (SceneNode :> SceneRoot)
    /\ draggable_objects = <<>>

\* C35: until init_objects has been called, create(type, id, parent_id, ...)
\* leaves the registry and the scene graph unchanged and raises nothing, so
\* the registry holds the root alone and a later mutator on the id changes
\* nothing; after init_objects(rows) with every row's parent listed before
\* the row, the registry holds the root and one node per row id, each
\* carrying its id and attached to its row's parent, and the graph holds no
\* other node
C35_DroppedUntilInitThenBuilt ==
    [][/\ ~is_initialized /\ last'.op = "create"
          => /\ ~last'.thrown
             /\ UNCHANGED <<is_initialized, objects, nodes, draggable_objects>>
       /\ ~is_initialized /\ last'.op \in Mutators
          => /\ NothingCreated
             /\ ~last'.thrown
             /\ UNCHANGED <<is_initialized, objects, nodes, draggable_objects>>
       /\ last'.op = "init_objects" /\ ParentsFirst(Rows')
          => /\ ~last'.thrown
             /\ DOMAIN objects' = {SceneId} \cup {Rows'[k].id : k \in 1..Len(Rows')}
             /\ objects'[SceneId] = SceneNode
             /\ Cardinality(DOMAIN nodes') = Len(Rows') + 1
             /\ \A k \in 1..Len(Rows') :
                   LET row == Rows'[k]
                       mesh == objects'[row.id]
                   IN  /\ nodes'[mesh].object_id = row.id
                       /\ nodes'[mesh].parent = objects'[row.parent_id]
                       /\ \A j \in 1..Len(Rows') :
                              objects'[Rows'[j].id] = mesh => j = k]_vars

\* init_objects built a box under a group
C35_Witness ==
    /\ last.op = "init_objects"
    /\ Len(Rows) = 2
    /\ nodes[objects["b"]].parent = objects["a"]
    /\ nodes[objects["a"]].parent = SceneNode

----------------------------------------------------------------------------
(* The timed highlight of the editor *)

\* the editor shows a highlight
Highlighted ==
    \E k \in 1..Len(editor.extension) : editor.extension[k].class = "cm-highlighted"

\* C36: a highlight applied by highlightLines(lines, cls, d) with d > 0 stays
\* applied until d milliseconds after that call: a removal timer that fires
\* removes a highlight only when the time of the call that applied it is up,
\* so the timer of an earlier call never removes the highlight of a later call
C36_TimerRemovesOnlyItsHighlight ==
    [][(last'.op = "timeout" /\ Highlighted /\ ~Highlighted')
         => editor.applied.age = editor.applied.duration]_vars

====
